---- MODULE Spec2Model ----
(***************************************************************************)
(* Quantity normalisation of the resource report                          *)
(* (src/generate_resource_report.py): parse_cpu, parse_mem and             *)
(* parse_quota_value, applied to Kubernetes quantity strings.              *)
(*                                                                         *)
(* Python values are modelled as follows.                                  *)
(*  - A str is a sequence of fragments whose concatenation is the text.    *)
(*    Input strings are split into single characters; the literal parts    *)
(*    of an f-string are kept as one fragment each.                        *)
(*  - A value that may be None is a record [isNone, s].                    *)
(*  - A float is an exact decimal [n, d] (the number n/d, d a power of     *)
(*    ten, n and d sharing no factor ten): every float the functions       *)
(*    return is either a parsed decimal literal or a value rounded to two  *)
(*    decimals.  -0.0 is 0.0 (they compare equal in Python).               *)
(*  - A call returns an outcome [exc, value, flag, msg]: exc = "" when     *)
(*    the call returned the pair (value, flag), else exc is the class of   *)
(*    the exception that left the call and msg its text.                   *)
(*  The raw strings are number parts over the characters 0 1 2 . - a and   *)
(*  a superscript two, followed by a unit suffix; with the digits 0, 1, 2  *)
(*  no quotient falls on a rounding tie that the binary float would        *)
(*  decide differently from the exact decimal.                             *)
(***************************************************************************)
EXTENDS Integers, Sequences, FiniteSets, TLC

VARIABLES raw,      \* the raw quantity (a str or None) handed to the function
          key,      \* the resource key handed to parse_quota_value
          fn,       \* the function that was called ("" before the call)
          result    \* the outcome of the call

\* get_container_details
VARIABLES details_pods,   \* pods_json["items"] handed to get_container_details
          grouped_details \* the dict it returns (<<>> before the call)

\* aggregate_resources_by_controller
VARIABLES agg_pods,      \* pods_json["items"] handed to the aggregation
          agg_i,         \* the number of pods the loop of line 108 has folded
          grouped_data,  \* the dict controller -> aggregate built by the loop
          df             \* the frame returned (NoFrame until then)

\* format_flag_counts
VARIABLES counter,       \* the Counter handed to format_flag_counts
          rendered       \* the str it returns (<<>> before the call)

\* parse_quota
VARIABLES quota_items,   \* quota_json["items"] handed to parse_quota
          quota_data     \* the rows returned (NoFrame until then)

\* PDFReport.add_table_with_flag_rows
VARIABLES table_row,       \* the row of the frame being drawn
          highlight_usage, \* the argument of that name
          row_colors       \* the fill and text colours chosen for the row

\* get_namespace_coverage
VARIABLES pods_list,     \* the pods handed to get_namespace_coverage
          pdbs_list,     \* the PDBs handed to it
          coverage_data  \* the dict it returns (NoCoverage before the call)

\* probe
VARIABLES pod_data,      \* the pods of the namespace and the time of the run
          probe_state    \* the locals of probe() while its loops run

parseVars == <<raw, key, fn, result>>

tableVars == <<table_row, highlight_usage, row_colors>>

coverageVars == <<pods_list, pdbs_list, coverage_data>>

probeVars == <<pod_data, probe_state>>

detailsVars == <<details_pods, grouped_details>>

aggVars == <<agg_pods, agg_i, grouped_data, df>>

formatVars == <<counter, rendered>>

quotaVars == <<quota_items, quota_data>>

vars == <<raw, key, fn, result, details_pods, grouped_details,
          agg_pods, agg_i, grouped_data, df, counter, rendered,
          quota_items, quota_data, table_row, highlight_usage, row_colors,
          pods_list, pdbs_list, coverage_data, pod_data, probe_state>>

---------------------------------------------------------------------------
\* Python values

PyNone == [isNone |-> TRUE, s |-> <<>>]

Str(s) == [isNone |-> FALSE, s |-> s]

\* U+00B2 SUPERSCRIPT TWO, one character: str.isdigit() accepts it,
\* float() and int() reject it.
Sup2 == "sup2"

AsciiDigits == {"0", "1", "2", "3", "4", "5", "6", "7", "8", "9"}

DigitVal(c) ==
    CASE c = "0" -> 0 [] c = "1" -> 1 [] c = "2" -> 2 [] c = "3" -> 3
      [] c = "4" -> 4 [] c = "5" -> 5 [] c = "6" -> 6 [] c = "7" -> 7
      [] c = "8" -> 8 [] c = "9" -> 9

\* s.endswith(suf)
endswith(s, suf) ==
    /\ Len(s) >= Len(suf)
    /\ SubSeq(s, Len(s) - Len(suf) + 1, Len(s)) = suf

\* s.startswith(pre)
startswith(s, pre) ==
    /\ Len(s) >= Len(pre)
    /\ SubSeq(s, 1, Len(pre)) = pre

\* kw in s (substring test)
contains(s, kw) ==
    \E i \in 0..(Len(s) - Len(kw)) : SubSeq(s, i + 1, i + Len(kw)) = kw

\* s[:-k]
DropLast(s, k) == SubSeq(s, 1, Len(s) - k)

\* s.replace(c, '', 1): the first occurrence of the character c removed
replace_first(s, c) ==
    IF \E i \in 1..Len(s) : s[i] = c
    THEN LET i == CHOOSE j \in 1..Len(s) :
                      s[j] = c /\ \A k \in 1..(j - 1) : s[k] # c
         IN  SubSeq(s, 1, i - 1) \o SubSeq(s, i + 1, Len(s))
    ELSE s

\* s.isdigit(): non-empty and every character has the Unicode digit property
isdigit(s) == Len(s) > 0 /\ \A i \in 1..Len(s) : s[i] \in AsciiDigits \cup {Sup2}

---------------------------------------------------------------------------
\* Numbers

RECURSIVE Dec(_, _)
\* the decimal n/d in canonical form
Dec(n, d) == IF d > 1 /\ n % 10 = 0 THEN Dec(n \div 10, d \div 10)
             ELSE [n |-> n, d |-> d]

Zero == [n |-> 0, d |-> 1]

Abs(n) == IF n < 0 THEN -n ELSE n

Sign(n) == IF n < 0 THEN -1 ELSE 1

RECURSIVE DigitsVal(_)
\* the number written by a sequence of ASCII digits ("" is 0)
DigitsVal(s) == IF s = <<>> THEN 0
                ELSE 10 * DigitsVal(DropLast(s, 1)) + DigitVal(s[Len(s)])

RECURSIVE Pow10(_)
Pow10(k) == IF k = 0 THEN 1 ELSE 10 * Pow10(k - 1)

AllAscii(s) == \A i \in 1..Len(s) : s[i] \in AsciiDigits

\* The literals int() accepts, over the characters of the model's inputs
\* (no whitespace, "+" or "_" among them): an optional "-" and one or more
\* ASCII digits.
IsIntLiteral(s) ==
    LET body == IF Len(s) > 0 /\ s[1] = "-" THEN Tail(s) ELSE s
    IN  Len(body) > 0 /\ AllAscii(body)

\* The literals float() accepts, over the characters of the model's inputs
\* (no whitespace, "+", "_", exponent, "inf" or "nan" among them): an
\* optional "-", then digits with at most one "." and at least one digit.
IsFloatLiteral(s) ==
    LET body == IF Len(s) > 0 /\ s[1] = "-" THEN Tail(s) ELSE s
        nodot == replace_first(body, ".")
    IN  Len(nodot) > 0 /\ AllAscii(nodot)

\* the value of a literal IsFloatLiteral (or IsIntLiteral) accepts
LiteralVal(s) ==
    LET neg   == s[1] = "-"
        body  == IF neg THEN Tail(s) ELSE s
        nodot == replace_first(body, ".")
        dot   == IF nodot = body THEN Len(body) + 1
                 ELSE CHOOSE j \in 1..Len(body) :
                          body[j] = "." /\ \A k \in 1..(j - 1) : body[k] # "."
        frac  == IF nodot = body THEN 0 ELSE Len(body) - dot
        mag   == DigitsVal(nodot)
    IN  Dec(IF neg THEN -mag ELSE mag, Pow10(frac))

\* repr(x) of a str without quotes or escapes, and of None
repr(x) == IF x.isNone THEN <<"None">> ELSE <<"'">> \o x.s \o <<"'">>

\* int(x): [exc, val, msg]; msg is str(e) of the exception raised
int(x) ==
    IF x.isNone
    THEN [exc |-> "TypeError", val |-> Zero,
          msg |-> <<"int() argument must be a string, a bytes-like object or a real number, not 'NoneType'">>]
    ELSE IF IsIntLiteral(x.s)
    THEN [exc |-> "", val |-> LiteralVal(x.s), msg |-> <<>>]
    ELSE [exc |-> "ValueError", val |-> Zero,
          msg |-> <<"invalid literal for int() with base 10: ">> \o repr(x)]

\* float(x): [exc, val, msg]
float(x) ==
    IF x.isNone
    THEN [exc |-> "TypeError", val |-> Zero,
          msg |-> <<"float() argument must be a string or a real number, not 'NoneType'">>]
    ELSE IF IsFloatLiteral(x.s)
    THEN [exc |-> "", val |-> LiteralVal(x.s), msg |-> <<>>]
    ELSE [exc |-> "ValueError", val |-> Zero,
          msg |-> <<"could not convert string to float: ">> \o repr(x)]

\* the integer nearest to a/b (a >= 0, b > 0), an exact half going to the
\* even neighbour, as round() does on a value the float holds exactly
NearestHalfEven(a, b) ==
    LET q == a \div b
        r == a % b
    IN  IF 2 * r > b \/ (2 * r = b /\ q % 2 = 1) THEN q + 1 ELSE q

\* the integer nearest to (a/d)/k (a >= 0, d > 0, k > 0), computed without
\* forming d*k
NearestOver(a, d, k) ==
    LET a1 == a \div d
        r1 == a % d
        q  == a1 \div k
        r2 == a1 % k
        up == \/ 2 * r2 > k
              \/ 2 * r2 = k /\ (r1 > 0 \/ q % 2 = 1)
              \/ 2 * r2 + 1 = k /\ 2 * r1 > d
    IN  IF up THEN q + 1 ELSE q

\* round(x * k, 2) for an integer k > 0
RoundTimes(x, k) ==
    LET a == Abs(x.n) * k
        q == a \div x.d
        f == NearestHalfEven(100 * (a % x.d), x.d)
    IN  IF f % 100 = 0 THEN Dec(Sign(x.n) * (q + f \div 100), 1)
        ELSE IF f % 10 = 0 THEN Dec(Sign(x.n) * (10 * q + f \div 10), 10)
        ELSE Dec(Sign(x.n) * (100 * q + f), 100)

\* round(x / k, 2) for an integer k > 0
RoundOver(x, k) == Dec(Sign(x.n) * NearestOver(100 * Abs(x.n), x.d, k), 100)

\* round(x, 2)
round2(x) == RoundTimes(x, 1)

---------------------------------------------------------------------------
\* Outcomes of a call

Returned(v, f) == [exc |-> "", value |-> v, flag |-> f, msg |-> <<>>]

\* the exception of class e, with str(e) = m, leaves the call
Raised(e, m) == [exc |-> e, value |-> Zero, flag |-> PyNone, msg |-> m]

NoResult == Raised("not called", <<>>)

---------------------------------------------------------------------------
\* parse_cpu

\* parse_cpu_try with the raw string left out of the "Invalid" flag
parse_cpu_try_BareFlag(s) ==
    IF endswith(s, <<"m">>)
    THEN LET f == float(Str(DropLast(s, 1)))
         IN  IF f.exc # "" THEN Raised(f.exc, f.msg)
             ELSE Returned(RoundOver(f.val, 1000), PyNone)
    ELSE IF isdigit(replace_first(s, "."))
    THEN LET f == float(Str(s))
         IN  IF f.exc # "" THEN Raised(f.exc, f.msg)
             ELSE Returned(round2(f.val), PyNone)
    ELSE Returned(Zero, Str(<<"Invalid CPU value">>))

\* the try block of parse_cpu, for a non-empty str s
parse_cpu_try(s) ==
    IF endswith(s, <<"m">>)
    THEN LET f == float(Str(DropLast(s, 1)))
         IN  IF f.exc # "" THEN Raised(f.exc, f.msg)
             ELSE Returned(RoundOver(f.val, 1000), PyNone)
    ELSE IF isdigit(replace_first(s, "."))
    THEN LET f == float(Str(s))
         IN  IF f.exc # "" THEN Raised(f.exc, f.msg)
             ELSE Returned(round2(f.val), PyNone)
    ELSE Returned(Zero, Str(<<"Invalid CPU value '">> \o s \o <<"'">>))

\* parse_cpu with an except clause that drops the flag
parse_cpu_SilentExcept(cpu_str) ==
    IF cpu_str.isNone \/ cpu_str.s = <<>>
    THEN Returned(Zero, PyNone)
    ELSE LET try == parse_cpu_try(cpu_str.s)
         IN  IF try.exc = "ValueError" THEN Returned(Zero, PyNone) ELSE try

\* parse_cpu without the "if not cpu_str" guard
parse_cpu_NoGuard(cpu_str) ==
    IF cpu_str.isNone
    THEN Raised("AttributeError", <<"'NoneType' object has no attribute 'endswith'">>)
    ELSE LET try == parse_cpu_try(cpu_str.s)
         IN  IF try.exc = "ValueError"
             THEN Returned(Zero, Str(<<"Unable to parse CPU value '">>
                                     \o cpu_str.s \o <<"'">>))
             ELSE try

parse_cpu(cpu_str) ==
    IF cpu_str.isNone \/ cpu_str.s = <<>>
    THEN Returned(Zero, PyNone)
    ELSE LET try == parse_cpu_try(cpu_str.s)
         IN  IF try.exc = "ValueError"
             THEN Returned(Zero, Str(<<"Unable to parse CPU value '">>
                                     \o cpu_str.s \o <<"'">>))
             ELSE try

---------------------------------------------------------------------------
\* parse_mem (its warning printed to stdout on a parse failure is not
\* part of the returned pair and is left out)

\* the try block of parse_mem, for a non-empty str s
parse_mem_try(s) ==
    LET i2 == int(Str(DropLast(s, 2)))
        f2 == float(Str(DropLast(s, 2)))
        f1 == float(Str(DropLast(s, 1)))
        f0 == float(Str(s))
    IN  IF endswith(s, <<"K", "i">>)
        THEN IF i2.exc # "" THEN Raised(i2.exc, i2.msg)
             ELSE Returned(RoundOver(i2.val, 1024), PyNone)
        ELSE IF endswith(s, <<"M", "i">>)
        THEN IF f2.exc # "" THEN Raised(f2.exc, f2.msg)
             ELSE Returned(round2(f2.val), PyNone)
        ELSE IF endswith(s, <<"G", "i">>)
        THEN IF f2.exc # "" THEN Raised(f2.exc, f2.msg)
             ELSE Returned(RoundTimes(f2.val, 1024), PyNone)
        ELSE IF endswith(s, <<"T", "i">>)
        THEN IF f2.exc # "" THEN Raised(f2.exc, f2.msg)
             ELSE Returned(RoundTimes(f2.val, 1024 * 1024), PyNone)
        ELSE IF endswith(s, <<"K">>)
        THEN IF f1.exc # "" THEN Raised(f1.exc, f1.msg)
             ELSE Returned(RoundOver(f1.val, 1024), PyNone)
        ELSE IF endswith(s, <<"M">>)
        THEN IF f1.exc # "" THEN Raised(f1.exc, f1.msg)
             ELSE Returned(round2(f1.val), PyNone)
        ELSE IF endswith(s, <<"G">>)
        THEN IF f1.exc # "" THEN Raised(f1.exc, f1.msg)
             ELSE Returned(RoundTimes(f1.val, 1024), PyNone)
        ELSE IF endswith(s, <<"T">>)
        THEN IF f1.exc # "" THEN Raised(f1.exc, f1.msg)
             ELSE Returned(RoundTimes(f1.val, 1024 * 1024), PyNone)
        ELSE IF endswith(s, <<"m">>)
        THEN IF f1.exc # "" THEN Raised(f1.exc, f1.msg)
             \* float * (0.001 / 1048576)
             ELSE Returned(RoundOver(f1.val, 1000 * 1048576),
                           Str(<<"Non-standard memory unit 'm' used">>))
        ELSE IF f0.exc # "" THEN Raised(f0.exc, f0.msg)
             ELSE Returned(RoundOver(f0.val, 1024 * 1024), PyNone)

parse_mem(mem_str) ==
    IF mem_str.isNone \/ mem_str.s = <<>>
    THEN Returned(Zero, PyNone)
    ELSE LET try == parse_mem_try(mem_str.s)
         IN  IF try.exc = "ValueError"
             THEN Returned(Zero, Str(<<"Unable to parse memory value '">>
                                     \o mem_str.s \o <<"'">>))
             ELSE try

---------------------------------------------------------------------------
\* parse_quota_value

\* the classes "except Exception" catches among those the calls can raise
ExceptionClasses == {"ValueError", "TypeError"}

CountKeys == {<<"p","o","d","s">>,
              <<"s","e","c","r","e","t","s">>,
              <<"c","o","n","f","i","g","m","a","p","s">>,
              <<"p","e","r","s","i","s","t","e","n","t","v","o","l","u","m","e","c","l","a","i","m","s">>}

\* parse_quota_value_try with the CPU and memory routes swapped
parse_quota_value_try_Swapped(resource_key, raw_value) ==
    LET i == int(raw_value)
        f == float(raw_value)
    IN  IF contains(resource_key, <<"c","p","u">>)
        THEN parse_mem(raw_value)
        ELSE IF \/ contains(resource_key, <<"m","e","m","o","r","y">>)
                \/ contains(resource_key, <<"s","t","o","r","a","g","e">>)
        THEN parse_cpu(raw_value)
        ELSE IF \/ startswith(resource_key, <<"c","o","u","n","t","/">>)
                \/ resource_key \in CountKeys
        THEN IF i.exc # "" THEN Raised(i.exc, i.msg)
             ELSE Returned(i.val, PyNone)
        ELSE IF f.exc # "" THEN Raised(f.exc, f.msg)
             ELSE Returned(f.val, PyNone)

\* the try block of parse_quota_value
parse_quota_value_try(resource_key, raw_value) ==
    LET i == int(raw_value)
        f == float(raw_value)
    IN  IF contains(resource_key, <<"c","p","u">>)
        THEN parse_cpu(raw_value)
        ELSE IF \/ contains(resource_key, <<"m","e","m","o","r","y">>)
                \/ contains(resource_key, <<"s","t","o","r","a","g","e">>)
                \/ contains(resource_key,
                      <<"e","p","h","e","m","e","r","a","l","-","s","t","o","r","a","g","e">>)
        THEN parse_mem(raw_value)
        ELSE IF \/ startswith(resource_key, <<"c","o","u","n","t","/">>)
                \/ resource_key \in CountKeys
        THEN IF i.exc # "" THEN Raised(i.exc, i.msg)
             ELSE Returned(i.val, PyNone)
        ELSE IF f.exc # "" THEN Raised(f.exc, f.msg)
             ELSE Returned(f.val, PyNone)

\* parse_quota_value catching ValueError only
parse_quota_value_CatchValueError(resource_key, raw_value) ==
    LET try == parse_quota_value_try(resource_key, raw_value)
    IN  IF try.exc = "ValueError"
        THEN Returned(Zero, Str(<<"Parse error for '">> \o resource_key
                                \o <<"': ">> \o try.msg))
        ELSE try

\* parse_quota_value with the resource key left out of the flag
parse_quota_value_NoKey(resource_key, raw_value) ==
    LET try == parse_quota_value_try(resource_key, raw_value)
    IN  IF try.exc \in ExceptionClasses
        THEN Returned(Zero, Str(<<"Parse error: ">> \o try.msg))
        ELSE try

parse_quota_value(resource_key, raw_value) ==
    LET try == parse_quota_value_try(resource_key, raw_value)
    IN  IF try.exc \in ExceptionClasses
        THEN Returned(Zero, Str(<<"Parse error for '">> \o resource_key
                                \o <<"': ">> \o try.msg))
        ELSE try

---------------------------------------------------------------------------
\* Inputs

MaxBody == 2

BodyChars == {"0", "1", "2", ".", "-", "a", Sup2}

Bodies == UNION {[1..k -> BodyChars] : k \in 0..MaxBody}

Suffixes == {<<>>, <<"m">>, <<"K", "i">>, <<"M", "i">>, <<"G", "i">>,
             <<"T", "i">>, <<"K">>, <<"M">>, <<"G">>, <<"T">>}

ExampleStrings == {<<"5", "0", "0", "m">>, <<"2", "5", "0", "m">>,
                   <<"a", "b", "c">>,
                   <<"1", ".", "5", "K", "i">>, <<"1", ".", "5", "K">>,
                   <<"1", "2", "8", "K", "i">>}

RawStrings == {b \o suf : b \in Bodies, suf \in Suffixes} \cup ExampleStrings

RawInputs == {PyNone} \cup {Str(s) : s \in RawStrings}

KeyPods == <<"p","o","d","s">>

KeyLimitsCpu == <<"l","i","m","i","t","s",".","c","p","u">>

KeyRequestsMemory == <<"r","e","q","u","e","s","t","s",".","m","e","m","o","r","y">>

KeyServices == <<"s","e","r","v","i","c","e","s">>

KeyCountStorageClasses ==
    <<"c","o","u","n","t","/","s","t","o","r","a","g","e","c","l","a","s","s","e","s",".","s","t","o","r","a","g","e",".","k","8","s",".","i","o">>

Keys == CountKeys \cup
        {<<"l","i","m","i","t","s",".","c","p","u">>,
         <<"r","e","q","u","e","s","t","s",".","m","e","m","o","r","y">>,
         <<"r","e","q","u","e","s","t","s",".","s","t","o","r","a","g","e">>,
         <<"r","e","q","u","e","s","t","s",".","e","p","h","e","m","e","r","a","l","-","s","t","o","r","a","g","e">>,
         <<"c","o","u","n","t","/","d","e","p","l","o","y","m","e","n","t","s",".","a","p","p","s">>,
         <<"c","o","u","n","t","/","s","t","o","r","a","g","e","c","l","a","s","s","e","s",".","s","t","o","r","a","g","e",".","k","8","s",".","i","o">>,
         <<"s","e","r","v","i","c","e","s">>}

---------------------------------------------------------------------------
\* Python str ordering and dicts

\* the characters of the model in ascending code point order
CodePointOrder ==
    <<" ", "'", "(", ")", ",", "-", ".", "/",
      "0", "1", "2", "3", "4", "5", "6", "7", "8", "9", ":", ";",
      "A", "B", "C", "D", "E", "F", "G", "H", "I", "J", "K", "L", "M",
      "N", "O", "P", "Q", "R", "S", "T", "U", "V", "W", "X", "Y", "Z",
      "a", "b", "c", "d", "e", "f", "g", "h", "i", "j", "k", "l", "m",
      "n", "o", "p", "q", "r", "s", "t", "u", "v", "w", "x", "y", "z",
      Sup2>>

\* the rank of a character in code point order
Rank(c) == CHOOSE i \in 1..Len(CodePointOrder) : CodePointOrder[i] = c

RECURSIVE str_lt(_, _)
\* a < b on two str: lexicographic by code point
str_lt(a, b) ==
    IF b = <<>> THEN FALSE
    ELSE IF a = <<>> THEN TRUE
    ELSE IF a[1] = b[1] THEN str_lt(Tail(a), Tail(b))
    ELSE Rank(a[1]) < Rank(b[1])

\* a > b on two str
str_gt(a, b) == str_lt(b, a)

\* A dict is the sequence of its items [k, v] in insertion order.
DictHas(d, k) == \E i \in 1..Len(d) : d[i].k = k

DictGet(d, k) == d[CHOOSE i \in 1..Len(d) : d[i].k = k].v

\* d[k] = v
DictSet(d, k, v) ==
    IF DictHas(d, k)
    THEN [i \in 1..Len(d) |-> IF d[i].k = k THEN [k |-> k, v |-> v] ELSE d[i]]
    ELSE Append(d, [k |-> k, v |-> v])

RECURSIVE join(_, _)
\* sep.join(parts), parts a sequence of str
join(sep, parts) ==
    IF parts = <<>> THEN <<>>
    ELSE IF Len(parts) = 1 THEN parts[1]
    ELSE parts[1] \o sep \o join(sep, Tail(parts))

---------------------------------------------------------------------------
\* get_container_details

\* A container's resources: the six quantities, None where the key is absent
\* from requests or limits (or the whole block is absent).
\* x.get(name, "-")
get_or_dash(x) == IF x.isNone THEN <<"-">> ELSE x.s

Dash == <<"-">>

\* the flags list of one container, with "elif" chaining the three
\* missing-resource tests
container_flags_Elif(c) ==
    LET cpu_req == get_or_dash(c.cpu_req)
        cpu_lim == get_or_dash(c.cpu_lim)
        mem_req == get_or_dash(c.mem_req)
        mem_lim == get_or_dash(c.mem_lim)
        es_req  == get_or_dash(c.es_req)
        es_lim  == get_or_dash(c.es_lim)
        has_req == cpu_req # Dash \/ mem_req # Dash \/ es_req # Dash
        has_lim == cpu_lim # Dash \/ mem_lim # Dash \/ es_lim # Dash
        f1 == IF ~has_req /\ ~has_lim THEN <<<<"Missing resources">>>>
              ELSE IF cpu_req = Dash /\ mem_req = Dash /\ es_req = Dash
              THEN <<<<"No requests">>>>
              ELSE IF cpu_lim = Dash /\ mem_lim = Dash /\ es_lim = Dash
              THEN <<<<"No limits">>>>
              ELSE <<>>
    IN  IF cpu_req # Dash /\ cpu_lim # Dash /\ str_gt(cpu_req, cpu_lim)
        THEN Append(f1, <<"CPU req > lim">>)
        ELSE f1

\* the flags list of one container, without the "CPU req > lim" test
container_flags_NoCpuTest(c) ==
    LET cpu_req == get_or_dash(c.cpu_req)
        cpu_lim == get_or_dash(c.cpu_lim)
        mem_req == get_or_dash(c.mem_req)
        mem_lim == get_or_dash(c.mem_lim)
        es_req  == get_or_dash(c.es_req)
        es_lim  == get_or_dash(c.es_lim)
        has_req == cpu_req # Dash \/ mem_req # Dash \/ es_req # Dash
        has_lim == cpu_lim # Dash \/ mem_lim # Dash \/ es_lim # Dash
        f1 == IF ~has_req /\ ~has_lim THEN <<<<"Missing resources">>>> ELSE <<>>
        f2 == IF cpu_req = Dash /\ mem_req = Dash /\ es_req = Dash
              THEN Append(f1, <<"No requests">>) ELSE f1
    IN  IF cpu_lim = Dash /\ mem_lim = Dash /\ es_lim = Dash
        THEN Append(f2, <<"No limits">>) ELSE f2

\* the flags list of one container, with "Missing resources" given when
\* either the requests or the limits are all unset
container_flags_MissingOr(c) ==
    LET cpu_req == get_or_dash(c.cpu_req)
        cpu_lim == get_or_dash(c.cpu_lim)
        mem_req == get_or_dash(c.mem_req)
        mem_lim == get_or_dash(c.mem_lim)
        es_req  == get_or_dash(c.es_req)
        es_lim  == get_or_dash(c.es_lim)
        has_req == cpu_req # Dash \/ mem_req # Dash \/ es_req # Dash
        has_lim == cpu_lim # Dash \/ mem_lim # Dash \/ es_lim # Dash
        f1 == IF ~has_req \/ ~has_lim THEN <<<<"Missing resources">>>> ELSE <<>>
        f2 == IF cpu_req = Dash /\ mem_req = Dash /\ es_req = Dash
              THEN Append(f1, <<"No requests">>) ELSE f1
        f3 == IF cpu_lim = Dash /\ mem_lim = Dash /\ es_lim = Dash
              THEN Append(f2, <<"No limits">>) ELSE f2
    IN  IF cpu_req # Dash /\ cpu_lim # Dash /\ str_gt(cpu_req, cpu_lim)
        THEN Append(f3, <<"CPU req > lim">>)
        ELSE f3

\* the flags list of one container (a sequence of str)
container_flags(c) ==
    LET cpu_req == get_or_dash(c.cpu_req)
        cpu_lim == get_or_dash(c.cpu_lim)
        mem_req == get_or_dash(c.mem_req)
        mem_lim == get_or_dash(c.mem_lim)
        es_req  == get_or_dash(c.es_req)
        es_lim  == get_or_dash(c.es_lim)
        has_req == cpu_req # Dash \/ mem_req # Dash \/ es_req # Dash
        has_lim == cpu_lim # Dash \/ mem_lim # Dash \/ es_lim # Dash
        f1 == IF ~has_req /\ ~has_lim THEN <<<<"Missing resources">>>> ELSE <<>>
        f2 == IF cpu_req = Dash /\ mem_req = Dash /\ es_req = Dash
              THEN Append(f1, <<"No requests">>) ELSE f1
        f3 == IF cpu_lim = Dash /\ mem_lim = Dash /\ es_lim = Dash
              THEN Append(f2, <<"No limits">>) ELSE f2
    IN  IF cpu_req # Dash /\ cpu_lim # Dash /\ str_gt(cpu_req, cpu_lim)
        THEN Append(f3, <<"CPU req > lim">>)
        ELSE f3

\* the row appended to pod_containers for one container
container_row(c, qos) ==
    LET flags == container_flags(c)
    IN  [Container |-> c.name,
         CPU_Req |-> get_or_dash(c.cpu_req), CPU_Lim |-> get_or_dash(c.cpu_lim),
         Mem_Req |-> get_or_dash(c.mem_req), Mem_Lim |-> get_or_dash(c.mem_lim),
         ES_Req  |-> get_or_dash(c.es_req),  ES_Lim  |-> get_or_dash(c.es_lim),
         QoS     |-> qos,
         Flags   |-> IF flags # <<>> THEN join(<<", ">>, flags) ELSE <<"OK">>]

\* the rows of one pod, in container order
pod_rows(pod) ==
    LET qos == IF pod.qosClass.isNone THEN <<"Unknown">> ELSE pod.qosClass.s
    IN  [i \in 1..Len(pod.containers) |-> container_row(pod.containers[i], qos)]

RECURSIVE get_container_details(_)
\* the dict pod name -> rows, over pods_json["items"]
get_container_details(items) ==
    IF items = <<>> THEN <<>>
    ELSE LET pod == items[Len(items)]
         IN  DictSet(get_container_details(DropLast(items, 1)),
                     pod.name, pod_rows(pod))

\* Inputs of get_container_details: one pod with up to MaxRowContainers
\* containers.
MaxRowContainers == 1

CpuReqChoices == {PyNone, Str(<<"5","0","0","m">>), Str(<<"1","0">>),
                  Str(<<"2">>), Str(<<"1">>)}

CpuLimChoices == {PyNone, Str(<<"1">>), Str(<<"9">>), Str(<<"1","0","0","0","m">>)}

MemChoices == {PyNone, Str(<<"1","G","i">>)}

RowContainers ==
    [name : {<<"c">>},
     cpu_req : CpuReqChoices, cpu_lim : CpuLimChoices,
     mem_req : MemChoices, mem_lim : MemChoices,
     es_req : MemChoices, es_lim : MemChoices]

RowContainerLists == UNION {[1..k -> RowContainers] : k \in 0..MaxRowContainers}

DetailsPods ==
    [name : {<<"p">>},
     qosClass : {PyNone, Str(<<"Burstable">>)},
     containers : RowContainerLists]

NotCalled == <<[k |-> <<"not called">>, v |-> <<>>]>>

---------------------------------------------------------------------------
\* format_flag_counts

\* the characters of one fragment of a flag text
FragChars(f) ==
    CASE f = "Invalid CPU value '" ->
         <<"I", "n", "v", "a", "l", "i", "d", " ", "C", "P", "U",
           " ", "v", "a", "l", "u", "e", " ", "'">>
      [] f = "Unable to parse CPU value '" ->
         <<"U", "n", "a", "b", "l", "e", " ", "t", "o", " ", "p",
           "a", "r", "s", "e", " ", "C", "P", "U", " ", "v", "a",
           "l", "u", "e", " ", "'">>
      [] f = "Unable to parse memory value '" ->
         <<"U", "n", "a", "b", "l", "e", " ", "t", "o", " ", "p",
           "a", "r", "s", "e", " ", "m", "e", "m", "o", "r", "y",
           " ", "v", "a", "l", "u", "e", " ", "'">>
      [] f = "Non-standard memory unit 'm' used" ->
         <<"N", "o", "n", "-", "s", "t", "a", "n", "d", "a", "r",
           "d", " ", "m", "e", "m", "o", "r", "y", " ", "u", "n",
           "i", "t", " ", "'", "m", "'", " ", "u", "s", "e", "d">>
      [] f = "Standalone pod without controller" ->
         <<"S", "t", "a", "n", "d", "a", "l", "o", "n", "e", " ",
           "p", "o", "d", " ", "w", "i", "t", "h", "o", "u", "t",
           " ", "c", "o", "n", "t", "r", "o", "l", "l", "e", "r">>
      [] OTHER -> <<f>>

RECURSIVE chars(_)
\* the characters of a str
chars(s) == IF s = <<>> THEN <<>> ELSE FragChars(s[1]) \o chars(Tail(s))

RECURSIVE str_int(_)
\* str(n) for an int n >= 0
str_int(n) ==
    LET d == <<"0", "1", "2", "3", "4", "5", "6", "7", "8", "9">>[(n % 10) + 1]
    IN  IF n < 10 THEN <<d>> ELSE Append(str_int(n \div 10), d)

RECURSIVE insort(_, _)
\* item put into an ascending sequence of items, before the first greater key
insort(item, s) ==
    IF s = <<>> THEN <<item>>
    ELSE IF str_lt(chars(item.k), chars(s[1].k)) THEN <<item>> \o s
    ELSE <<s[1]>> \o insort(item, Tail(s))

RECURSIVE sorted(_)
\* sorted(counter.items()): the keys of a dict differ, so the (flag, count)
\* tuples are ordered by flag
sorted(items) ==
    IF items = <<>> THEN <<>>
    ELSE insort(items[Len(items)], sorted(DropLast(items, 1)))

\* f"{flag} ({count}x)" if count > 1 else flag
flag_entry(item) ==
    IF item.v > 1 THEN item.k \o <<" (">> \o str_int(item.v) \o <<"x)">>
    ELSE item.k

\* format_flag_counts over the items in insertion order
format_flag_counts_Unsorted(cnt) ==
    IF cnt = <<>> THEN <<"OK">>
    ELSE join(<<"; ">>, [i \in 1..Len(cnt) |-> flag_entry(cnt[i])])

format_flag_counts(cnt) ==
    IF cnt = <<>> THEN <<"OK">>
    ELSE LET items == sorted(cnt)
         IN  join(<<"; ">>, [i \in 1..Len(items) |-> flag_entry(items[i])])

StandaloneFlag == <<"Standalone pod without controller">>

\* Inputs of format_flag_counts: Counters over FormatFlags, in every
\* insertion order, with counts up to MaxCount and one two-digit count.
MaxCount == 2

FormatFlags ==
    {StandaloneFlag,
     <<"Invalid CPU value '", "a", "'">>,
     <<"Invalid CPU value '", "-", "'">>,
     <<"Non-standard memory unit 'm' used">>}

CountChoices == (1..MaxCount) \cup {11}

FormatCounters ==
    UNION {{c \in [1..n -> [k : FormatFlags, v : CountChoices]] :
               \A i, j \in 1..n : i # j => c[i].k # c[j].k} :
           n \in 0..Cardinality(FormatFlags)}

NoFrame == [exc |-> "not built", rows |-> <<>>]

---------------------------------------------------------------------------
\* aggregate_resources_by_controller

LowerChar(c) ==
    LET r == Rank(c)
    IN  IF Rank("A") <= r /\ r <= Rank("Z") THEN CodePointOrder[r + 26] ELSE c

\* s.lower()
lower(s) == [i \in 1..Len(s) |-> LowerChar(s[i])]

StandalonePrefix == <<"s", "t", "a", "n", "d", "a", "l", "o", "n", "e", "/">>

\* pod.ownerReferences is the list under metadata, empty when the key is
\* absent
extract_controller_name(pod) ==
    IF pod.ownerReferences # <<>>
    THEN LET owner == pod.ownerReferences[1]
         IN  lower(owner.kind) \o <<"/">> \o owner.name
    ELSE StandalonePrefix \o pod.name

\* a + b on two floats (the sums of the model are exact: the addends are
\* multiples of 0.01 far below the precision of a double)
Add(a, b) ==
    LET d == IF a.d > b.d THEN a.d ELSE b.d
    IN  Dec(a.n * (d \div a.d) + b.n * (d \div b.d), d)

\* the default aggregate of the defaultdict
NewAggregate ==
    [pod_count |-> 0, cpu_req |-> Zero, cpu_lim |-> Zero, mem_req |-> Zero,
     mem_lim |-> Zero, es_req |-> Zero, es_lim |-> Zero, flags |-> <<>>]

\* counter[flag] += 1
counter_inc(cnt, flag) ==
    DictSet(cnt, flag, (IF DictHas(cnt, flag) THEN DictGet(cnt, flag) ELSE 0) + 1)

\* total = value in place of total += value
iadd_Assign(total, value) == value

\* total += value
iadd(total, value) == Add(total, value)

\* pod_count = 1 in place of pod_count += 1
count_pod_Reset(grp, pod) == [grp EXCEPT !.pod_count = 1]

\* pod_count counted only for a pod that has containers
count_pod_IfContainers(grp, pod) ==
    IF pod.containers = <<>> THEN grp ELSE [grp EXCEPT !.pod_count = @ + 1]

\* grouped_data[controller]["pod_count"] += 1
count_pod(grp, pod) == [grp EXCEPT !.pod_count = @ + 1]

RECURSIVE add_flags(_, _)
\* the loop of line 138 over the six flags
add_flags(cnt, flags) ==
    IF flags = <<>> THEN cnt
    ELSE IF flags[1].isNone \/ flags[1].s = <<>>
    THEN add_flags(cnt, Tail(flags))
    ELSE add_flags(counter_inc(cnt, flags[1].s), Tail(flags))

\* lines 122-140 for one container, rs being the six (value, flag) pairs
\* of lines 120-135 in order: the aggregate after them, or the exception the
\* first failing parse let through
add_parsed(grp, rs) ==
    IF \E i \in 1..6 : rs[i].exc # ""
    THEN [exc |-> rs[CHOOSE i \in 1..6 :
                        /\ rs[i].exc # ""
                        /\ \A j \in 1..(i - 1) : rs[j].exc = ""].exc,
          grp |-> grp]
    ELSE [exc |-> "",
          grp |-> [grp EXCEPT
                     !.cpu_req = iadd(@, rs[1].value),
                     !.cpu_lim = iadd(@, rs[2].value),
                     !.mem_req = iadd(@, rs[3].value),
                     !.mem_lim = iadd(@, rs[4].value),
                     !.es_req  = iadd(@, rs[5].value),
                     !.es_lim  = iadd(@, rs[6].value),
                     !.flags   = add_flags(@, [i \in 1..6 |-> rs[i].flag])]]

\* the body of the loop of line 114 for one container
fold_container(grp, c) ==
    add_parsed(grp, <<parse_cpu(c.cpu_req), parse_cpu(c.cpu_lim),
                      parse_mem(c.mem_req), parse_mem(c.mem_lim),
                      parse_mem(c.es_req),  parse_mem(c.es_lim)>>)

RECURSIVE fold_containers(_, _)
RECURSIVE fold_rest(_, _)
\* the loop of line 114 over the containers of a pod
fold_containers(grp, containers) ==
    IF containers = <<>> THEN [exc |-> "", grp |-> grp]
    ELSE fold_rest(fold_container(grp, containers[1]), Tail(containers))

\* the loop goes on after a container unless an exception left it
fold_rest(r, containers) ==
    IF r.exc # "" THEN r ELSE fold_containers(r.grp, containers)

\* grouped_data[controller], the default aggregate where the key is new
aggregate_of(data, controller) ==
    IF DictHas(data, controller) THEN DictGet(data, controller)
    ELSE NewAggregate

\* lines 110-111
flag_standalone(grp, controller) ==
    IF startswith(controller, StandalonePrefix)
    THEN [grp EXCEPT !.flags = counter_inc(@, StandaloneFlag)]
    ELSE grp

\* grouped_data when every key holds one and the same aggregate object
store_Shared(data, controller, r) ==
    [exc |-> r.exc,
     data |-> DictSet([i \in 1..Len(data) |-> [k |-> data[i].k, v |-> r.grp]],
                      controller, r.grp)]

\* grouped_data with the aggregate r.grp under the key, or the exception
store(data, controller, r) ==
    [exc |-> r.exc, data |-> DictSet(data, controller, r.grp)]

\* lines 110-140 for a pod with the key controller
fold_under(data, controller, pod) ==
    store(data, controller,
          fold_containers(count_pod(flag_standalone(aggregate_of(data, controller),
                                                    controller),
                                    pod),
                          pod.containers))

\* the body of the loop of line 108 for one pod: grouped_data after it, or
\* the exception that ends the call
fold_pod(data, pod) == fold_under(data, extract_controller_name(pod), pod)

\* lines 143-151: one row per aggregate, the sums rounded to two decimals
\* and the Counter rendered; with no aggregate the frame has no "flags"
\* column and line 144 raises KeyError
build_frame(data) ==
    IF data = <<>> THEN [exc |-> "KeyError", rows |-> <<>>]
    ELSE [exc |-> "",
          rows |-> [i \in 1..Len(data) |->
                      [Controller |-> data[i].k,
                       pod_count  |-> data[i].v.pod_count,
                       cpu_req    |-> round2(data[i].v.cpu_req),
                       cpu_lim    |-> round2(data[i].v.cpu_lim),
                       mem_req    |-> round2(data[i].v.mem_req),
                       mem_lim    |-> round2(data[i].v.mem_lim),
                       es_req     |-> round2(data[i].v.es_req),
                       es_lim     |-> round2(data[i].v.es_lim),
                       Flags      |-> format_flag_counts(data[i].v.flags)]]]

\* Inputs of the aggregation: up to MaxAggPods pods with distinct names, each
\* with up to MaxAggContainers containers.
MaxAggPods == 2

MaxAggContainers == 1

AggContainers ==
    {[cpu_req |-> Str(<<"4", "m">>), cpu_lim |-> PyNone,
      mem_req |-> Str(<<"1", "G", "i">>), mem_lim |-> PyNone,
      es_req |-> PyNone, es_lim |-> Str(<<"2", "M", "i">>)],
     [cpu_req |-> Str(<<"2", "5", "0", "m">>), cpu_lim |-> Str(<<"a">>),
      mem_req |-> PyNone, mem_lim |-> Str(<<"a">>),
      es_req |-> PyNone, es_lim |-> PyNone]}

AggContainerLists == UNION {[1..k -> AggContainers] : k \in 0..MaxAggContainers}

ReplicaSetR == [kind |-> <<"R", "e", "p", "l", "i", "c", "a", "S", "e", "t">>,
                name |-> <<"r">>]

StandaloneA == [kind |-> <<"S", "t", "a", "n", "d", "a", "l", "o", "n", "e">>,
                name |-> <<"a">>]

AggPodMeta ==
    {[name |-> <<"a">>, ownerReferences |-> <<>>],
     [name |-> <<"c">>, ownerReferences |-> <<ReplicaSetR>>],
     [name |-> <<"e">>, ownerReferences |-> <<ReplicaSetR>>],
     [name |-> <<"d">>, ownerReferences |-> <<StandaloneA>>]}

AggPods ==
    {[name |-> m.name, ownerReferences |-> m.ownerReferences, containers |-> cs] :
        m \in AggPodMeta, cs \in AggContainerLists}

AggPodLists ==
    UNION {{ps \in [1..n -> AggPods] :
               \A i, j \in 1..n : i # j => ps[i].name # ps[j].name} :
           n \in 0..MaxAggPods}

---------------------------------------------------------------------------
\* parse_quota

\* round((used_num / hard_num) * 100, 1) if hard_num > 0 else 0.0
usage_percent(used_num, hard_num) ==
    IF hard_num.n > 0
    THEN Dec(Sign(used_num.n)
               * NearestHalfEven(Abs(used_num.n) * hard_num.d * 1000,
                                 used_num.d * hard_num.n),
             10)
    ELSE Zero

RECURSIVE drop_none(_)
\* filter(None, flags): the flags that are neither None nor empty
drop_none(flags) ==
    IF flags = <<>> THEN <<>>
    ELSE IF flags[1].isNone \/ flags[1].s = <<>> THEN drop_none(Tail(flags))
    ELSE <<flags[1].s>> \o drop_none(Tail(flags))

\* "; ".join(filter(None, [used_flag, hard_flag])) or "OK"
quota_flags(used_flag, hard_flag) ==
    IF drop_none(<<used_flag, hard_flag>>) = <<>> THEN <<"OK">>
    ELSE join(<<"; ">>, drop_none(<<used_flag, hard_flag>>))

\* lines 173-181, used and hard being the outcomes of the two
\* parse_quota_value calls: the row appended, or the exception let through
quota_record(resource, used_val, hard_val, used, hard) ==
    IF used.exc # "" THEN [exc |-> used.exc, rows |-> <<>>]
    ELSE IF hard.exc # "" THEN [exc |-> hard.exc, rows |-> <<>>]
    ELSE [exc |-> "",
          rows |-> <<[Resource   |-> resource,
                      Used       |-> used_val,
                      Hard_Limit |-> hard_val,
                      Usage      |-> usage_percent(used.value, hard.value),
                      Flags      |-> quota_flags(used.flag, hard.flag)]>>]

\* lines 168-181 for one key of hard
quota_row(resource, used_val, hard_val) ==
    quota_record(resource, used_val, hard_val,
                 parse_quota_value(resource, Str(used_val)),
                 parse_quota_value(resource, Str(hard_val)))

\* used.get(resource, "-"), the default of the container rows
get_or_zero_Dash(d, resource) ==
    IF DictHas(d, resource) THEN DictGet(d, resource) ELSE <<"-">>

\* used.get(resource, "0")
get_or_zero(d, resource) ==
    IF DictHas(d, resource) THEN DictGet(d, resource) ELSE <<"0">>

\* the rows a and then b, or the first exception
then_rows(a, b) ==
    IF a.exc # "" THEN a
    ELSE IF b.exc # "" THEN b
    ELSE [exc |-> "", rows |-> a.rows \o b.rows]

RECURSIVE item_rows(_, _)
\* the loop of line 167 over the first n keys of an item's hard
item_rows(item, n) ==
    IF n = 0 THEN [exc |-> "", rows |-> <<>>]
    ELSE then_rows(item_rows(item, n - 1),
                   quota_row(item.hard[n].k,
                             get_or_zero(item.used, item.hard[n].k),
                             get_or_zero(item.hard, item.hard[n].k)))

RECURSIVE parse_quota(_)
\* the rows of the frame parse_quota returns, over quota_json["items"]; an
\* item's used and hard are the dicts under status, empty when absent
parse_quota(items) ==
    IF items = <<>> THEN [exc |-> "", rows |-> <<>>]
    ELSE then_rows(parse_quota(DropLast(items, 1)),
                   item_rows(items[Len(items)], Len(items[Len(items)].hard)))

\* Inputs of parse_quota: quota objects with up to MaxQuotaRows keys in all,
\* each key in hard, in used or in both.
MaxQuotaRows == 2

\* the hard and used quantities tried for each key
QuotaChoices ==
    {[k |-> KeyLimitsCpu,
      hard |-> {<<"0">>, <<"2", "m">>, <<"2">>},
      used |-> {<<"1", "m">>, <<"1">>}],
     [k |-> KeyRequestsMemory,
      hard |-> {<<"2", "G", "i">>},
      used |-> {<<"1", "G", "i">>, <<"a">>}],
     [k |-> KeyPods,
      hard |-> {<<"3">>},
      used |-> {<<"1">>, <<"2">>}]}

\* one key of a quota object: its hard entry and its used entry, if any, or
\* a key that only used has
QuotaEntries ==
    UNION {{[k |-> c.k, hard |-> Str(h), used |-> u] :
               h \in c.hard, u \in {PyNone} \cup {Str(x) : x \in c.used}} :
           c \in QuotaChoices}
    \cup {[k |-> KeyServices, hard |-> PyNone, used |-> Str(<<"1">>)]}

RECURSIVE hard_of(_)
hard_of(es) ==
    IF es = <<>> THEN <<>>
    ELSE IF es[1].hard.isNone THEN hard_of(Tail(es))
    ELSE <<[k |-> es[1].k, v |-> es[1].hard.s]>> \o hard_of(Tail(es))

RECURSIVE used_of(_)
used_of(es) ==
    IF es = <<>> THEN <<>>
    ELSE IF es[1].used.isNone THEN used_of(Tail(es))
    ELSE <<[k |-> es[1].k, v |-> es[1].used.s]>> \o used_of(Tail(es))

\* the quota object with the entries es, in the order of its hard
QuotaItem(es) == [hard |-> hard_of(es), used |-> used_of(es)]

\* the quota objects with n keys
QuotaItems(n) ==
    {QuotaItem(es) :
        es \in {e \in [1..n -> QuotaEntries] :
                   \A i, j \in 1..n : i # j => e[i].k # e[j].k}}

RECURSIVE QuotaLists(_, _)
\* the lists of n quota objects with at most r keys in all
QuotaLists(n, r) ==
    IF n = 0 THEN {<<>>}
    ELSE UNION {UNION {{<<item>> \o rest : rest \in QuotaLists(n - 1, r - k)} :
                       item \in QuotaItems(k)} :
                k \in 0..r}

\* the lists of at most r quota objects with at most r keys in all
QuotaItemLists(r) == UNION {QuotaLists(n, r) : n \in 0..r}

---------------------------------------------------------------------------
\* PDFReport.add_table_with_flag_rows: the colours of a row

White == <<255, 255, 255>>

Black == <<0, 0, 0>>

Red == <<255, 0, 0>>

Yellow == <<255, 255, 153>>

NoColors == [fill |-> <<>>, text |-> <<>>]

\* the row colours with the resourcequotas test left out
usage_colors_NoSpecialCase(resource_name, usage) ==
    IF usage.n >= 90 * usage.d THEN [fill |-> Red, text |-> White]
    ELSE IF usage.n >= 80 * usage.d THEN [fill |-> Yellow, text |-> Black]
    ELSE [fill |-> White, text |-> Black]

\* lines 546-561: the fill and text colours under highlight_usage
usage_colors(resource_name, usage) ==
    IF resource_name = <<"resourcequotas">> THEN [fill |-> White, text |-> Black]
    ELSE IF usage.n >= 90 * usage.d THEN [fill |-> Red, text |-> White]
    ELSE IF usage.n >= 80 * usage.d THEN [fill |-> Yellow, text |-> Black]
    ELSE [fill |-> White, text |-> Black]

\* lines 537-563 for one row: white and black unless highlight_usage
colors_of_row(row, highlight) ==
    IF highlight THEN usage_colors(row.Resource, row.Usage)
    ELSE [fill |-> White, text |-> Black]

\* Inputs: rows of the quota frame, their usage in tenths of a percent
\* around the two thresholds, at the ends of the scale and beyond it.
UsageTenths == {-100, 0, 5, 500, 1000, 2000} \cup (785..915)

TableRows ==
    [Resource : {<<"resourcequotas">>, <<"pods">>, <<"limits.cpu">>},
     Usage : {Dec(n, 10) : n \in UsageTenths}]

---------------------------------------------------------------------------
\* get_namespace_coverage (kubecase/generate_pdb_report.py)

\* A pod is [name, has_labels, labels]: metadata.name and metadata.labels, a
\* dict that may be absent.  A PDB is [has_spec, has_selector,
\* has_matchLabels, matchLabels, has_matchExpressions]: the keys present on
\* the way to spec.selector.matchLabels.

\* line 39: pdb.get("spec", {}).get("selector", {}).get("matchLabels", {})
match_labels(pdb) ==
    IF pdb.has_spec /\ pdb.has_selector /\ pdb.has_matchLabels
    THEN pdb.matchLabels
    ELSE <<>>

\* the selectors of the PDBs with the test of line 40 left out
pdb_selectors_KeepEmpty(pdbs) ==
    [i \in 1..Len(pdbs) |-> match_labels(pdbs[i])]

\* lines 37-41: the non-empty matchLabels, in the order of the PDBs
RECURSIVE pdb_selectors(_)
pdb_selectors(pdbs) ==
    IF pdbs = <<>> THEN <<>>
    ELSE IF match_labels(pdbs[1]) # <<>>
         THEN <<match_labels(pdbs[1])>> \o pdb_selectors(Tail(pdbs))
         ELSE pdb_selectors(Tail(pdbs))

\* line 45: pod["metadata"].get("labels", {})
labels_of(pod) == IF pod.has_labels THEN pod.labels ELSE <<>>

\* a selector that selects on any one of its keys
selects_Any(selector, pod_labels) ==
    \E i \in 1..Len(selector) :
        /\ DictHas(pod_labels, selector[i].k)
        /\ DictGet(pod_labels, selector[i].k) = selector[i].v

\* line 49: all(pod_labels.get(k) == v for k, v in selector.items())
selects(selector, pod_labels) ==
    \A i \in 1..Len(selector) :
        /\ DictHas(pod_labels, selector[i].k)
        /\ DictGet(pod_labels, selector[i].k) = selector[i].v

\* lines 46-51: the first selector that selects the pod ends the search
matched(pod, selectors) ==
    \E s \in 1..Len(selectors) : selects(selectors[s], labels_of(pod))

\* a loop body that lists every pod as uncovered
sort_pod_AlwaysUncovered(lists, pod, selectors) ==
    IF matched(pod, selectors)
    THEN [covered |-> Append(lists.covered, pod),
          uncovered |-> Append(lists.uncovered, pod)]
    ELSE [lists EXCEPT !.uncovered = Append(@, pod)]

\* lines 53-56: the pod goes to the end of one of the two lists
sort_pod(lists, pod, selectors) ==
    IF matched(pod, selectors)
    THEN [lists EXCEPT !.covered = Append(@, pod)]
    ELSE [lists EXCEPT !.uncovered = Append(@, pod)]

\* lines 44-56: the loop over pods_list
RECURSIVE sort_pods(_, _, _)
sort_pods(lists, pods, selectors) ==
    IF pods = <<>> THEN lists
    ELSE sort_pods(sort_pod(lists, pods[1], selectors), Tail(pods), selectors)

\* the percentage cut off instead of rounded
coverage_percentage_Floor(covered_count, total_pods) ==
    IF total_pods > 0
    THEN Dec((covered_count * 100) \div total_pods, 1)
    ELSE Zero

\* lines 60 and 66: (covered_count / total_pods) * 100 if total_pods > 0
\* else 0, then round(..., 0), which rounds a half to the even neighbour
coverage_percentage(covered_count, total_pods) ==
    IF total_pods > 0
    THEN Dec(NearestHalfEven(covered_count * 100, total_pods), 1)
    ELSE Zero

\* lines 62-67: the returned dict
coverage_dict(pods, lists) ==
    [total_pods |-> Len(pods),
     covered_pods |-> lists.covered,
     uncovered_pods |-> lists.uncovered,
     coverage_percentage |-> coverage_percentage(Len(lists.covered), Len(pods))]

get_namespace_coverage(pods, pdbs) ==
    coverage_dict(pods,
                  sort_pods([covered |-> <<>>, uncovered |-> <<>>], pods,
                            pdb_selectors(pdbs)))

NoCoverage ==
    [total_pods |-> -1, covered_pods |-> <<>>, uncovered_pods |-> <<>>,
     coverage_percentage |-> Zero]

\* Inputs: up to MaxCovPods pods and MaxCovPdbs PDBs, and the pod lists of
\* the examples (ten pods of which seven can match, eight of which one or
\* three can match, three of which two can match).
MaxCovPods == 2

MaxCovPdbs == 2

AppX == [k |-> <<"app">>, v |-> <<"x">>]

AppY == [k |-> <<"app">>, v |-> <<"y">>]

TierDb == [k |-> <<"tier">>, v |-> <<"db">>]

Labelled(d) == [has_labels |-> TRUE, labels |-> d]

Unlabelled == [has_labels |-> FALSE, labels |-> <<>>]

PodLabelChoices ==
    {Unlabelled, Labelled(<<>>), Labelled(<<AppX>>), Labelled(<<AppY, TierDb>>),
     Labelled(<<AppX, TierDb>>)}

pod_named(i, l) ==
    [name |-> <<"pod-">> \o str_int(i), has_labels |-> l.has_labels,
     labels |-> l.labels]

PodsOf(ls) == [i \in 1..Len(ls) |-> pod_named(i, ls[i])]

Repeat(l, n) == [i \in 1..n |-> l]

ExamplePodLists ==
    {PodsOf(Repeat(Labelled(<<AppX>>), 4) \o Repeat(Unlabelled, 3)
            \o Repeat(Labelled(<<AppX, TierDb>>), 3)),
     PodsOf(Repeat(Labelled(<<AppY, TierDb>>), 3)
            \o <<Labelled(<<AppX, TierDb>>)>> \o Repeat(Unlabelled, 4)),
     PodsOf(Repeat(Labelled(<<AppX, TierDb>>), 3) \o Repeat(Unlabelled, 5)),
     PodsOf(<<Labelled(<<AppX>>), Labelled(<<AppY, TierDb>>),
              Labelled(<<AppX, TierDb>>)>>)}

CovPodLists(n) ==
    ExamplePodLists \cup
    UNION {{PodsOf(ls) : ls \in [1..len -> PodLabelChoices]} : len \in 0..n}

MatchLabels(d) ==
    [has_spec |-> TRUE, has_selector |-> TRUE, has_matchLabels |-> TRUE,
     matchLabels |-> d, has_matchExpressions |-> FALSE]

PdbChoices ==
    {[has_spec |-> FALSE, has_selector |-> FALSE, has_matchLabels |-> FALSE,
      matchLabels |-> <<>>, has_matchExpressions |-> FALSE],
     [has_spec |-> TRUE, has_selector |-> FALSE, has_matchLabels |-> FALSE,
      matchLabels |-> <<>>, has_matchExpressions |-> FALSE],
     [has_spec |-> TRUE, has_selector |-> TRUE, has_matchLabels |-> FALSE,
      matchLabels |-> <<>>, has_matchExpressions |-> TRUE],
     MatchLabels(<<>>),
     MatchLabels(<<AppX>>),
     MatchLabels(<<TierDb, AppX>>)}

CovPdbLists(n) == UNION {[1..len -> PdbChoices] : len \in 0..n}

---------------------------------------------------------------------------
\* probe (generate_probe_report.py): the rows of the report

\* A timestamp string is modelled by the second it names and the form it is
\* written in: Iso(t) as kubectl prints it, Ymd(t) as "%Y-%m-%d %H:%M:%S".
Iso(t) == <<"T">> \o str_int(t) \o <<"Z">>

Ymd(t) == <<"D">> \o str_int(t)

\* the seconds the inputs name, and the time of the run
TimeChoices == {0, 86400, 90000}

NowChoices == {90061}

DoubleDash == <<"--">>

\* parser.parse(s): the second an ISO string names, or an exception
parser_parse(s) ==
    IF \E t \in TimeChoices : Iso(t) = s
    THEN [exc |-> "", t |-> CHOOSE t \in TimeChoices : Iso(t) = s]
    ELSE [exc |-> "ParserError", t |-> 0]

\* parser.parse(s).strftime("%Y-%m-%d %H:%M:%S"), "--" on any exception
\* (lines 164, 168 and 169-171)
reformat(s) ==
    IF parser_parse(s).exc = "" THEN Ymd(parser_parse(s).t) ELSE DoubleDash

\* lines 159-171.  A status is [restartCount, running, startedAt,
\* terminated, has_finishedAt, finishedAt, reason, exitCode]: running says
\* that state.running is there, terminated that lastState.terminated is.
get_restart_or_start_time(container_status) ==
    IF container_status.restartCount > 0
    THEN IF container_status.terminated /\ container_status.has_finishedAt
         THEN reformat(container_status.finishedAt)
         ELSE DoubleDash
    ELSE IF container_status.running
         THEN reformat(container_status.startedAt)
         ELSE DoubleDash

\* lines 194-206: the parts of the uptime that are not zero, then the seconds
uptime_str(days, hours, minutes, seconds) ==
    (IF days > 0 THEN str_int(days) \o <<" days, ">> ELSE <<>>)
    \o (IF hours > 0 THEN str_int(hours) \o <<" hours, ">> ELSE <<>>)
    \o (IF minutes > 0 THEN str_int(minutes) \o <<" minutes, ">> ELSE <<>>)
    \o str_int(seconds) \o <<" seconds">>

\* lines 183-210: strptime fails on anything but the Ymd form
calculate_uptime(last_seen_running_str, now) ==
    IF \E t \in TimeChoices : Ymd(t) = last_seen_running_str
    THEN LET t == CHOOSE t \in TimeChoices : Ymd(t) = last_seen_running_str
             uptime == now - t
         IN  uptime_str(uptime \div 86400, (uptime % 86400) \div 3600,
                        ((uptime % 86400) % 3600) \div 60,
                        ((uptime % 86400) % 3600) % 60)
    ELSE DoubleDash

\* lines 140-157.  A probe is [set, initialDelaySeconds, periodSeconds,
\* successThreshold, failureThreshold]; set is FALSE when the container has
\* no probe of the type.
get_probe_seconds(probe, probe_type) ==
    IF ~probe.set THEN PyNone
    ELSE IF probe_type = "startupProbe"
    THEN Str(str_int(probe.initialDelaySeconds) \o <<"s + ">>
             \o str_int(probe.periodSeconds) \o <<"s, ">>
             \o str_int(probe.initialDelaySeconds
                        + probe.periodSeconds * probe.failureThreshold)
             \o <<"s">>)
    ELSE Str(str_int(probe.initialDelaySeconds
                     + probe.periodSeconds * (probe.successThreshold - 1))
             \o <<"s, ">>
             \o str_int(probe.periodSeconds * probe.failureThreshold)
             \o <<"s">>)

\* a local of probe(): unbound until its first assignment
Unbound == [bound |-> FALSE, s |-> <<>>]

Bound(s) == [bound |-> TRUE, s |-> s]

\* lines 297-301: name -> restartCount over containerStatuses
RECURSIVE status_map_of(_)
status_map_of(statuses) ==
    IF statuses = <<>> THEN <<>>
    ELSE DictSet(status_map_of(SubSeq(statuses, 1, Len(statuses) - 1)),
                 statuses[Len(statuses)].name,
                 statuses[Len(statuses)].restartCount)

map_get(status_map, name) ==
    IF DictHas(status_map, name) THEN DictGet(status_map, name) ELSE 0

\* lines 291-292: kind/name of the first owner reference, Pod/<pod> without
owner_of(pod) ==
    IF pod.has_owner
    THEN pod.owner_kind \o <<"/">> \o pod.owner_name
    ELSE <<"Pod">> \o <<"/">> \o pod.name

\* line 318: the first status of the container's name, 0 when there is none
RECURSIVE find_status(_, _, _)
find_status(statuses, name, from) ==
    IF from > Len(statuses) THEN 0
    ELSE IF statuses[from].name = name THEN from
    ELSE find_status(statuses, name, from + 1)

\* lines 332-335; the fragment "WARNING SIGN" stands for U+26A0
restart_display(restart_count) ==
    IF restart_count > 0
    THEN str_int(restart_count) \o <<" ", "WARNING SIGN">>
    ELSE str_int(restart_count)

\* lines 312, 313 and 325-329, then 338-341
reason_display(found, status) ==
    IF found /\ status.terminated
    THEN status.reason \o <<" (code ">> \o str_int(status.exitCode) \o <<")">>
    ELSE <<"N/A">>

or_dashes(total) == IF total.isNone THEN DoubleDash ELSE total.s

missing(total) == IF total.isNone THEN 1 ELSE 0

\* line 359: owners[owner][pod_name].append(row)
owners_append(owners, owner, pod_name, row) ==
    DictSet(owners, owner,
            DictSet(IF DictHas(owners, owner) THEN DictGet(owners, owner)
                    ELSE <<>>,
                    pod_name,
                    Append(IF DictHas(owners, owner)
                              /\ DictHas(DictGet(owners, owner), pod_name)
                           THEN DictGet(DictGet(owners, owner), pod_name)
                           ELSE <<>>,
                           row)))

\* lines 318-325: restart_time and uptime are assigned only under the
\* status of the container's name, and keep what they held otherwise
times_after(st, found, status, now) ==
    IF found
    THEN [restart_time |-> Bound(get_restart_or_start_time(status)),
          uptime |->
              IF get_restart_or_start_time(status) # DoubleDash
              THEN Bound(calculate_uptime(get_restart_or_start_time(status),
                                          now))
              ELSE Bound(DoubleDash)]
    ELSE [restart_time |-> st.restart_time, uptime |-> st.uptime]

\* line 359: the row of a container
row_of(container, found, status, times) ==
    [container_name |-> container.name,
     startup |-> or_dashes(get_probe_seconds(container.startupProbe,
                                             "startupProbe")),
     liveness |-> or_dashes(get_probe_seconds(container.livenessProbe,
                                              "livenessProbe")),
     readiness |-> or_dashes(get_probe_seconds(container.readinessProbe,
                                               "readinessProbe")),
     restart_display |->
         restart_display(IF found THEN status.restartCount ELSE 0),
     reason_display |-> reason_display(found, status),
     restart_time |-> times.restart_time.s,
     uptime |-> times.uptime.s]

\* the locals of probe() before its loop (lines 284-287)
ProbeStart ==
    [pc |-> "next pod", exc |-> "", pod |-> 1, container |-> 0,
     owner |-> <<>>, pod_name |-> <<>>, status_map |-> <<>>,
     restart_time |-> Unbound, uptime |-> Unbound, owners |-> <<>>,
     startup_missing |-> 0, liveness_missing |-> 0, readiness_missing |-> 0,
     all_containers |-> 0, restart_pods |-> 0, total_restarts |-> 0,
     max_restarts |-> 0, seen_owners |-> {}]

NoProbe == [ProbeStart EXCEPT !.pc = "not started"]

\* lines 304-359 for one container, the status of its name found or not
after_container(st, container, found, status, times) ==
    IF ~times.restart_time.bound \/ ~times.uptime.bound
    THEN [st EXCEPT !.pc = "failed", !.exc = "UnboundLocalError",
                    !.all_containers = @ + 1,
                    !.total_restarts =
                        @ + map_get(st.status_map, container.name),
                    !.max_restarts =
                        IF map_get(st.status_map, container.name) > @
                        THEN map_get(st.status_map, container.name) ELSE @,
                    !.startup_missing =
                        @ + missing(get_probe_seconds(container.startupProbe,
                                                      "startupProbe")),
                    !.liveness_missing =
                        @ + missing(get_probe_seconds(container.livenessProbe,
                                                      "livenessProbe")),
                    !.readiness_missing =
                        @ + missing(get_probe_seconds(container.readinessProbe,
                                                      "readinessProbe"))]
    ELSE [st EXCEPT !.restart_time = times.restart_time,
                    !.uptime = times.uptime,
                    !.all_containers = @ + 1,
                    !.total_restarts =
                        @ + map_get(st.status_map, container.name),
                    !.max_restarts =
                        IF map_get(st.status_map, container.name) > @
                        THEN map_get(st.status_map, container.name) ELSE @,
                    !.startup_missing =
                        @ + missing(get_probe_seconds(container.startupProbe,
                                                      "startupProbe")),
                    !.liveness_missing =
                        @ + missing(get_probe_seconds(container.livenessProbe,
                                                      "livenessProbe")),
                    !.readiness_missing =
                        @ + missing(get_probe_seconds(container.readinessProbe,
                                                      "readinessProbe")),
                    !.owners =
                        owners_append(@, st.owner, st.pod_name,
                                      row_of(container, found, status, times))]

\* Inputs: up to MaxProbePods pods of 1..MaxProbeContainers containers.
MaxProbePods == 2

MaxProbeContainers == 2

NoProbeSpec ==
    [set |-> FALSE, initialDelaySeconds |-> 0, periodSeconds |-> 0,
     successThreshold |-> 0, failureThreshold |-> 0]

HttpProbe ==
    [set |-> TRUE, initialDelaySeconds |-> 5, periodSeconds |-> 10,
     successThreshold |-> 1, failureThreshold |-> 3]

NoStatus ==
    [restartCount |-> 0, running |-> FALSE, startedAt |-> <<>>,
     terminated |-> FALSE, has_finishedAt |-> FALSE, finishedAt |-> <<>>,
     reason |-> <<>>, exitCode |-> 0]

Running(t) == [NoStatus EXCEPT !.running = TRUE, !.startedAt = Iso(t)]

Restarted(finishedAt) ==
    [restartCount |-> 2, running |-> TRUE, startedAt |-> Iso(90000),
     terminated |-> TRUE, has_finishedAt |-> TRUE, finishedAt |-> finishedAt,
     reason |-> <<"OOMKilled">>, exitCode |-> 137]

\* a container of the input: its probes, and its entry of containerStatuses
\* when it has one
ProbeContainerChoices ==
    {[has_status |-> FALSE, status |-> NoStatus, startupProbe |-> NoProbeSpec,
      livenessProbe |-> NoProbeSpec, readinessProbe |-> NoProbeSpec],
     [has_status |-> FALSE, status |-> NoStatus, startupProbe |-> NoProbeSpec,
      livenessProbe |-> HttpProbe, readinessProbe |-> HttpProbe],
     [has_status |-> TRUE, status |-> Running(0), startupProbe |-> HttpProbe,
      livenessProbe |-> HttpProbe, readinessProbe |-> HttpProbe],
     [has_status |-> TRUE, status |-> Running(90000),
      startupProbe |-> NoProbeSpec, livenessProbe |-> NoProbeSpec,
      readinessProbe |-> HttpProbe],
     [has_status |-> TRUE, status |-> NoStatus, startupProbe |-> NoProbeSpec,
      livenessProbe |-> NoProbeSpec, readinessProbe |-> NoProbeSpec],
     [has_status |-> TRUE, status |-> Restarted(Iso(86400)),
      startupProbe |-> NoProbeSpec, livenessProbe |-> HttpProbe,
      readinessProbe |-> NoProbeSpec],
     [has_status |-> TRUE, status |-> Restarted(<<"yesterday">>),
      startupProbe |-> NoProbeSpec, livenessProbe |-> NoProbeSpec,
      readinessProbe |-> NoProbeSpec]}

container_named(j, c) ==
    [name |-> <<"c">> \o str_int(j), has_status |-> c.has_status,
     status |-> c.status, startupProbe |-> c.startupProbe,
     livenessProbe |-> c.livenessProbe, readinessProbe |-> c.readinessProbe]

\* the entries of containerStatuses, in the order of the containers
RECURSIVE statuses_of(_)
statuses_of(containers) ==
    IF containers = <<>> THEN <<>>
    ELSE IF containers[1].has_status
         THEN <<[name |-> containers[1].name] @@ containers[1].status>>
              \o statuses_of(Tail(containers))
         ELSE statuses_of(Tail(containers))

\* the first pod has no owner reference, the others belong to ReplicaSet/r
probe_pod(i, cs) ==
    [name |-> <<"pod-">> \o str_int(i), has_owner |-> i > 1,
     owner_kind |-> <<"ReplicaSet">>, owner_name |-> <<"r">>,
     containers |-> [j \in 1..Len(cs) |-> container_named(j, cs[j])],
     containerStatuses |->
         statuses_of([j \in 1..Len(cs) |-> container_named(j, cs[j])])]

ProbeContainerLists(n) ==
    UNION {[1..len -> ProbeContainerChoices] : len \in 1..n}

ProbePodLists(n, m) ==
    UNION {{[i \in 1..len |-> probe_pod(i, css[i])] :
                css \in [1..len -> ProbeContainerLists(m)]} : len \in 0..n}

---------------------------------------------------------------------------
\* The calls

ParseIdle ==
    /\ raw = PyNone
    /\ key = <<>>
    /\ fn = ""
    /\ result = NoResult

DetailsIdle ==
    /\ details_pods = <<>>
    /\ grouped_details = NotCalled

AggIdle ==
    /\ agg_pods = <<>>
    /\ agg_i = 0
    /\ grouped_data = <<>>
    /\ df = NoFrame

FormatIdle ==
    /\ counter = <<>>
    /\ rendered = <<>>

QuotaIdle ==
    /\ quota_items = <<>>
    /\ quota_data = NoFrame

TableIdle ==
    /\ table_row = [Resource |-> <<>>, Usage |-> Zero]
    /\ highlight_usage = FALSE
    /\ row_colors = NoColors

CoverageIdle ==
    /\ pods_list = <<>>
    /\ pdbs_list = <<>>
    /\ coverage_data = NoCoverage

ProbeIdle ==
    /\ pod_data = [items |-> <<>>, now |-> 0]
    /\ probe_state = NoProbe

Init ==
    /\ raw \in RawInputs
    /\ key \in Keys
    /\ fn = ""
    /\ result = NoResult
    /\ DetailsIdle
    /\ AggIdle
    /\ FormatIdle
    /\ QuotaIdle
    /\ TableIdle
    /\ CoverageIdle
    /\ ProbeIdle

CallParseCpu ==
    /\ fn = ""
    /\ fn' = "parse_cpu"
    /\ result' = parse_cpu(raw)
    /\ UNCHANGED <<raw, key>>
    /\ UNCHANGED <<detailsVars, aggVars, formatVars, quotaVars,
                 tableVars, coverageVars, probeVars>>

CallParseMem ==
    /\ fn = ""
    /\ fn' = "parse_mem"
    /\ result' = parse_mem(raw)
    /\ UNCHANGED <<raw, key>>
    /\ UNCHANGED <<detailsVars, aggVars, formatVars, quotaVars,
                 tableVars, coverageVars, probeVars>>

CallParseQuotaValue ==
    /\ fn = ""
    /\ fn' = "parse_quota_value"
    /\ result' = parse_quota_value(key, raw)
    /\ UNCHANGED <<raw, key>>
    /\ UNCHANGED <<detailsVars, aggVars, formatVars, quotaVars,
                 tableVars, coverageVars, probeVars>>

Next == CallParseCpu \/ CallParseMem \/ CallParseQuotaValue

Spec == Init /\ [][Next]_vars

\* get_container_details(pods_json) is called
InitDetails ==
    /\ ParseIdle
    /\ details_pods \in {<<pod>> : pod \in DetailsPods}
    /\ grouped_details = NotCalled
    /\ AggIdle
    /\ FormatIdle
    /\ QuotaIdle
    /\ TableIdle
    /\ CoverageIdle
    /\ ProbeIdle

CallGetContainerDetails ==
    /\ grouped_details = NotCalled
    /\ grouped_details' = get_container_details(details_pods)
    /\ UNCHANGED details_pods
    /\ UNCHANGED <<parseVars, aggVars, formatVars, quotaVars,
                 tableVars, coverageVars, probeVars>>

NextDetails == CallGetContainerDetails

SpecDetails == InitDetails /\ [][NextDetails]_vars

\* format_flag_counts(counter) is called
InitFormat ==
    /\ ParseIdle
    /\ DetailsIdle
    /\ AggIdle
    /\ QuotaIdle
    /\ TableIdle
    /\ CoverageIdle
    /\ ProbeIdle
    /\ counter \in FormatCounters
    /\ rendered = <<>>

CallFormatFlagCounts ==
    /\ rendered = <<>>
    /\ rendered' = format_flag_counts(counter)
    /\ UNCHANGED counter
    /\ UNCHANGED <<parseVars, detailsVars, aggVars, quotaVars,
                 tableVars, coverageVars, probeVars>>

NextFormat == CallFormatFlagCounts

SpecFormat == InitFormat /\ [][NextFormat]_vars

\* aggregate_resources_by_controller(pods_json) runs
InitAggregate ==
    /\ ParseIdle
    /\ DetailsIdle
    /\ FormatIdle
    /\ QuotaIdle
    /\ TableIdle
    /\ CoverageIdle
    /\ ProbeIdle
    /\ agg_pods \in AggPodLists
    /\ agg_i = 0
    /\ grouped_data = <<>>
    /\ df = NoFrame

\* the loop of line 108 goes on with the next pod, or the exception of
\* the iteration ends the call
LoopStep(r) ==
    IF r.exc = ""
    THEN /\ grouped_data' = r.data
         /\ agg_i' = agg_i + 1
         /\ UNCHANGED df
    ELSE /\ df' = [exc |-> r.exc, rows |-> <<>>]
         /\ UNCHANGED <<grouped_data, agg_i>>

\* one iteration of the loop of line 108
FoldPod ==
    /\ df = NoFrame
    /\ agg_i < Len(agg_pods)
    /\ LoopStep(fold_pod(grouped_data, agg_pods[agg_i + 1]))
    /\ UNCHANGED agg_pods
    /\ UNCHANGED <<parseVars, detailsVars, formatVars, quotaVars,
                 tableVars, coverageVars, probeVars>>

\* lines 143-151, after the loop
BuildFrame ==
    /\ df = NoFrame
    /\ agg_i = Len(agg_pods)
    /\ df' = build_frame(grouped_data)
    /\ UNCHANGED <<agg_pods, agg_i, grouped_data>>
    /\ UNCHANGED <<parseVars, detailsVars, formatVars, quotaVars,
                 tableVars, coverageVars, probeVars>>

NextAggregate == FoldPod \/ BuildFrame

SpecAggregate == InitAggregate /\ [][NextAggregate]_vars

\* parse_quota(quota_json) is called
InitQuota ==
    /\ ParseIdle
    /\ DetailsIdle
    /\ FormatIdle
    /\ AggIdle
    /\ TableIdle
    /\ CoverageIdle
    /\ ProbeIdle
    /\ quota_items \in QuotaItemLists(MaxQuotaRows)
    /\ quota_data = NoFrame

CallParseQuota ==
    /\ quota_data = NoFrame
    /\ quota_data' = parse_quota(quota_items)
    /\ UNCHANGED quota_items
    /\ UNCHANGED <<parseVars, detailsVars, formatVars, aggVars,
                 tableVars, coverageVars, probeVars>>

NextQuota == CallParseQuota

SpecQuota == InitQuota /\ [][NextQuota]_vars

\* add_table_with_flag_rows draws one row of a frame
InitTable ==
    /\ ParseIdle
    /\ DetailsIdle
    /\ FormatIdle
    /\ AggIdle
    /\ QuotaIdle
    /\ CoverageIdle
    /\ ProbeIdle
    /\ table_row \in TableRows
    /\ highlight_usage \in BOOLEAN
    /\ row_colors = NoColors

DrawRow ==
    /\ row_colors = NoColors
    /\ row_colors' = colors_of_row(table_row, highlight_usage)
    /\ UNCHANGED <<table_row, highlight_usage>>
    /\ UNCHANGED <<parseVars, detailsVars, formatVars, aggVars, quotaVars,
                   coverageVars, probeVars>>

NextTable == DrawRow

SpecTable == InitTable /\ [][NextTable]_vars

\* one call of get_namespace_coverage
InitCoverage ==
    /\ ParseIdle
    /\ DetailsIdle
    /\ FormatIdle
    /\ AggIdle
    /\ QuotaIdle
    /\ TableIdle
    /\ ProbeIdle
    /\ pods_list \in CovPodLists(MaxCovPods)
    /\ pdbs_list \in CovPdbLists(MaxCovPdbs)
    /\ coverage_data = NoCoverage

CallGetNamespaceCoverage ==
    /\ coverage_data = NoCoverage
    /\ coverage_data' = get_namespace_coverage(pods_list, pdbs_list)
    /\ UNCHANGED <<pods_list, pdbs_list>>
    /\ UNCHANGED <<parseVars, detailsVars, formatVars, aggVars, quotaVars,
                   tableVars, probeVars>>

NextCoverage == CallGetNamespaceCoverage

SpecCoverage == InitCoverage /\ [][NextCoverage]_vars

\* one run of probe() over the pods of a namespace
InitProbe ==
    /\ ParseIdle
    /\ DetailsIdle
    /\ FormatIdle
    /\ AggIdle
    /\ QuotaIdle
    /\ TableIdle
    /\ CoverageIdle
    /\ pod_data \in [items : ProbePodLists(MaxProbePods, MaxProbeContainers),
                     now : NowChoices]
    /\ probe_state = NoProbe

ProbeOthersUnchanged ==
    UNCHANGED <<parseVars, detailsVars, formatVars, aggVars, quotaVars,
                tableVars, coverageVars>>

\* lines 284-287: the locals before the loop
StartProbe ==
    /\ probe_state.pc = "not started"
    /\ probe_state' = ProbeStart
    /\ UNCHANGED pod_data
    /\ ProbeOthersUnchanged

\* lines 289-301: the next pod, its owner and its status_map
NextPod ==
    /\ probe_state.pc = "next pod"
    /\ probe_state.pod <= Len(pod_data.items)
    /\ probe_state' =
           [probe_state EXCEPT
               !.pc = "containers",
               !.container = 1,
               !.owner = owner_of(pod_data.items[probe_state.pod]),
               !.seen_owners =
                   @ \cup {owner_of(pod_data.items[probe_state.pod])},
               !.pod_name = pod_data.items[probe_state.pod].name,
               !.status_map =
                   status_map_of(
                       pod_data.items[probe_state.pod].containerStatuses)]
    /\ UNCHANGED pod_data
    /\ ProbeOthersUnchanged

ContainerStep(st, pod, container, at) ==
    after_container(st, container, at > 0,
                    IF at > 0 THEN pod.containerStatuses[at]
                    ELSE [name |-> <<>>] @@ NoStatus,
                    times_after(st, at > 0,
                                IF at > 0 THEN pod.containerStatuses[at]
                                ELSE [name |-> <<>>] @@ NoStatus,
                                pod_data.now))

\* lines 303-359: one container of the pod
ProbeContainer ==
    /\ probe_state.pc = "containers"
    /\ probe_state.container
           <= Len(pod_data.items[probe_state.pod].containers)
    /\ probe_state' =
           [ContainerStep(
                probe_state, pod_data.items[probe_state.pod],
                pod_data.items[probe_state.pod]
                    .containers[probe_state.container],
                find_status(
                    pod_data.items[probe_state.pod].containerStatuses,
                    pod_data.items[probe_state.pod]
                        .containers[probe_state.container].name, 1))
            EXCEPT !.container = @ + 1]
    /\ UNCHANGED pod_data
    /\ ProbeOthersUnchanged

\* lines 361-363: the pod counts as restarted when a container of it has
EndPod ==
    /\ probe_state.pc = "containers"
    /\ probe_state.container
           > Len(pod_data.items[probe_state.pod].containers)
    /\ probe_state' =
           [probe_state EXCEPT
               !.pc = "next pod",
               !.pod = @ + 1,
               !.restart_pods =
                   IF \E j \in
                         1..Len(pod_data.items[probe_state.pod].containers) :
                          map_get(probe_state.status_map,
                                  pod_data.items[probe_state.pod]
                                      .containers[j].name) > 0
                   THEN @ + 1 ELSE @]
    /\ UNCHANGED pod_data
    /\ ProbeOthersUnchanged

\* line 365: the loop is over
EndProbe ==
    /\ probe_state.pc = "next pod"
    /\ probe_state.pod > Len(pod_data.items)
    /\ probe_state' = [probe_state EXCEPT !.pc = "done"]
    /\ UNCHANGED pod_data
    /\ ProbeOthersUnchanged

NextProbe ==
    \/ StartProbe
    \/ NextPod
    \/ ProbeContainer
    \/ EndPod
    \/ EndProbe

SpecProbe == InitProbe /\ [][NextProbe]_vars

---------------------------------------------------------------------------
\* Vocabulary of the claims

\* a decimal integer string: one or more ASCII digits
IsDecimalInteger(s) == Len(s) > 0 /\ \A i \in 1..Len(s) : s[i] \in AsciiDigits

\* a bare numeric string: ASCII digits with at most one decimal point and
\* at least one digit
IsBareNumeric(s) ==
    LET dots == {i \in 1..Len(s) : s[i] = "."}
    IN  /\ Cardinality(dots) <= 1
        /\ Len(s) > Cardinality(dots)
        /\ \A i \in (1..Len(s)) \ dots : s[i] \in AsciiDigits

\* a bare numeric string with an optional leading minus sign
IsSignedNumeric(s) ==
    IsBareNumeric(IF Len(s) > 0 /\ s[1] = "-" THEN Tail(s) ELSE s)

IsSignedInteger(s) ==
    IsDecimalInteger(IF Len(s) > 0 /\ s[1] = "-" THEN Tail(s) ELSE s)

\* a non-empty CPU string that is no quantity: its number part (the string
\* less a trailing "m") is no number
CpuMalformed(s) ==
    /\ s # <<>>
    /\ IF s[Len(s)] = "m" THEN ~IsSignedNumeric(DropLast(s, 1))
       ELSE ~IsBareNumeric(s)

MemSuffixes2 == {<<"K", "i">>, <<"M", "i">>, <<"G", "i">>, <<"T", "i">>}

MemSuffixes1 == {<<"K">>, <<"M">>, <<"G">>, <<"T">>, <<"m">>}

\* the number part of a memory string: the string less its unit suffix
MemNumberPart(s) ==
    IF \E u \in MemSuffixes2 : endswith(s, u) THEN DropLast(s, 2)
    ELSE IF \E u \in MemSuffixes1 : endswith(s, u) THEN DropLast(s, 1)
    ELSE s

\* a non-empty memory string that is no quantity: its number part is no number
MemMalformed(s) == s # <<>> /\ ~IsSignedNumeric(MemNumberPart(s))

\* a non-empty memory string parse_mem cannot normalize: no quantity, or a
\* "Ki" quantity whose number part is not an integer
MemNotNormalizable(s) ==
    \/ MemMalformed(s)
    \/ endswith(s, <<"K", "i">>) /\ ~IsSignedInteger(DropLast(s, 2))

Called(f) == fn = f

IsString(x) == ~x.isNone

NoFlag(r) == r.exc = "" /\ r.flag.isNone

\* the call returned value 0.0 and a flag that is a non-empty string
ZeroWithFlag(r) ==
    /\ r.exc = ""
    /\ r.value = Zero
    /\ ~r.flag.isNone
    /\ r.flag.s # <<>>
    /\ \E i \in 1..Len(r.flag.s) : r.flag.s[i] # ""

\* the rational v equals a/b
Equals(v, a, b) == v.n * b = a * v.d

---------------------------------------------------------------------------
\* C1: every non-empty raw string that parse_cpu or parse_mem cannot
\* normalize (its number part is no number, or no integer before "Ki")
\* yields the value 0.0 together with a non-empty flag, never 0.0 with no
\* flag.
C1_FailedNormalizationIsFlagged ==
    /\ (Called("parse_cpu") /\ IsString(raw) /\ CpuMalformed(raw.s))
          => ZeroWithFlag(result)
    /\ (Called("parse_mem") /\ IsString(raw) /\ MemNotNormalizable(raw.s))
          => ZeroWithFlag(result)

\* parse_cpu was handed "am": float("a") raised and the result carries a flag
C1_Witness ==
    /\ Called("parse_cpu")
    /\ raw = Str(<<"a", "m">>)
    /\ ZeroWithFlag(result)

C3_MillicoresExact ==
    (/\ Called("parse_cpu")
     /\ IsString(raw)
     /\ endswith(raw.s, <<"m">>)
     /\ IsDecimalInteger(DropLast(raw.s, 1)))
       => /\ NoFlag(result)
          /\ Equals(result.value, DigitsVal(DropLast(raw.s, 1)), 1000)

\* C4: for every non-empty CPU string that neither ends in "m" nor is a bare
\* numeric string, parse_cpu returns 0.0 and the flag
\* "invalid CPU value '<raw>'", and does not raise.
C4_InvalidCpuFlagAsClaimed ==
    (/\ Called("parse_cpu")
     /\ IsString(raw)
     /\ raw.s # <<>>
     /\ ~endswith(raw.s, <<"m">>)
     /\ ~IsBareNumeric(raw.s))
       => /\ result.exc = ""
          /\ result.value = Zero
          /\ result.flag = Str(<<"invalid CPU value '">> \o raw.s \o <<"'">>)

\* every character of s, one "." apart, is a digit character
\* (ASCII or not) and there is at least one
OnlyDigitCharacters(s) ==
    LET dots == {i \in 1..Len(s) : s[i] = "."}
        rest == IF dots = {} THEN 1..Len(s)
                ELSE (1..Len(s)) \ {CHOOSE i \in dots : \A j \in dots : i <= j}
    IN  rest # {} /\ \A i \in rest : s[i] \in AsciiDigits \cup {Sup2}

\* C4 as amended: for every non-empty CPU string that neither ends in "m"
\* nor is a bare numeric string, parse_cpu does not raise and returns 0.0
\* with the flag "Invalid CPU value '<raw>'" (capital I); a string made only
\* of digit characters that is still no number (such as a superscript two)
\* gets the flag "Unable to parse CPU value '<raw>'" instead.
C4_InvalidCpuFlag ==
    (/\ Called("parse_cpu")
     /\ IsString(raw)
     /\ raw.s # <<>>
     /\ ~endswith(raw.s, <<"m">>)
     /\ ~IsBareNumeric(raw.s))
       => /\ result.exc = ""
          /\ result.value = Zero
          /\ result.flag =
               IF OnlyDigitCharacters(raw.s)
               THEN Str(<<"Unable to parse CPU value '">> \o raw.s \o <<"'">>)
               ELSE Str(<<"Invalid CPU value '">> \o raw.s \o <<"'">>)

\* parse_cpu was handed "abc" and returned the capitalised flag
C4_Witness ==
    /\ Called("parse_cpu")
    /\ raw = Str(<<"a", "b", "c">>)
    /\ result.value = Zero
    /\ result.flag = Str(<<"Invalid CPU value '", "a", "b", "c", "'">>)

\* C5: for absent (None) or empty-string input, parse_cpu and parse_mem both
\* return (0.0, none): absence yields a zero quantity and never a flag.
C5_AbsentIsZeroNoFlag ==
    (/\ Called("parse_cpu") \/ Called("parse_mem")
     /\ raw.isNone \/ raw.s = <<>>)
       => /\ result.exc = ""
          /\ result.value = Zero
          /\ result.flag.isNone

\* parse_cpu was handed the empty string
C5_Witness ==
    /\ Called("parse_cpu")
    /\ raw = Str(<<>>)
    /\ result.value = Zero
    /\ result.flag.isNone

\* C6: for every non-negative integer n, parse_mem returns with no flag
\* n/1024 MiB for "<n>Ki", n MiB for "<n>Mi", n*1024 MiB for "<n>Gi" and
\* n*1024*1024 MiB for "<n>Ti".
C6_BinarySuffixesExact ==
    (/\ Called("parse_mem")
     /\ IsString(raw)
     /\ \E u \in MemSuffixes2 : endswith(raw.s, u)
     /\ IsDecimalInteger(DropLast(raw.s, 2)))
       => LET n == DigitsVal(DropLast(raw.s, 2))
              v == result.value
          IN  /\ NoFlag(result)
              /\ endswith(raw.s, <<"K", "i">>) => Equals(v, n, 1024)
              /\ endswith(raw.s, <<"M", "i">>) => Equals(v, n, 1)
              /\ endswith(raw.s, <<"G", "i">>) => Equals(v, n * 1024, 1)
              /\ endswith(raw.s, <<"T", "i">>) => Equals(v, n * 1024 * 1024, 1)

\* C7: for every numeric string x (integer or with a decimal point),
\* parse_mem treats a decimal suffix exactly like the binary one:
\* parse_mem(x+"K") = parse_mem(x+"Ki"), and the same for M, G and T, in
\* value and in flag.
C7_DecimalSuffixLikeBinary ==
    (/\ Called("parse_mem")
     /\ IsString(raw)
     /\ \E u \in {<<"K">>, <<"M">>, <<"G">>, <<"T">>} : endswith(raw.s, u)
     /\ IsBareNumeric(DropLast(raw.s, 1)))
       => LET binary == parse_mem(Str(raw.s \o <<"i">>))
          IN  /\ result.exc = binary.exc
              /\ result.value = binary.value
              /\ result.flag.isNone = binary.flag.isNone

\* a count-style resource key
IsCountStyleKey(k) == k \in CountKeys \/ startswith(k, <<"c","o","u","n","t","/">>)

\* C8: for every key that is one of pods, secrets, configmaps,
\* persistentvolumeclaims or starts with "count/" (count/storageclasses.
\* storage.k8s.io included) and every decimal integer string,
\* parse_quota_value returns that integer unchanged, with no unit
\* conversion and no flag.
C8_CountKeysParseAsIntegers ==
    (/\ Called("parse_quota_value")
     /\ IsCountStyleKey(key)
     /\ IsString(raw)
     /\ IsDecimalInteger(raw.s))
       => /\ NoFlag(result)
          /\ Equals(result.value, DigitsVal(raw.s), 1)

\* C9: parse_quota_value routes by substring of the key: a key containing
\* "cpu" gives parse_cpu(raw); a key containing "memory" or "storage" and not
\* "cpu" gives parse_mem(raw); ("limits.cpu", "500m") gives (0.5, none) and
\* ("pods", "12") gives (12, none).
C9_RoutesBySubstring ==
    Called("parse_quota_value") =>
       /\ contains(key, <<"c","p","u">>) => result = parse_cpu(raw)
       /\ (/\ ~contains(key, <<"c","p","u">>)
           /\ \/ contains(key, <<"m","e","m","o","r","y">>)
              \/ contains(key, <<"s","t","o","r","a","g","e">>))
             => result = parse_mem(raw)
       /\ (key = KeyLimitsCpu /\ raw = Str(<<"5", "0", "0", "m">>))
             => NoFlag(result) /\ Equals(result.value, 1, 2)
       /\ (key = KeyPods /\ raw = Str(<<"1", "2">>))
             => NoFlag(result) /\ Equals(result.value, 12, 1)

\* parse_quota_value("limits.cpu", "500m") returned (0.5, none)
C9_Witness ==
    /\ Called("parse_quota_value")
    /\ key = KeyLimitsCpu
    /\ raw = Str(<<"5", "0", "0", "m">>)
    /\ result = Returned([n |-> 5, d |-> 10], PyNone)

\* the raw value cannot be parsed on the route the key takes
QuotaUnparsable(k, x) ==
    IF contains(k, <<"c","p","u">>)
    THEN IsString(x) /\ CpuMalformed(x.s)
    ELSE IF contains(k, <<"m","e","m","o","r","y">>)
            \/ contains(k, <<"s","t","o","r","a","g","e">>)
    THEN IsString(x) /\ MemNotNormalizable(x.s)
    ELSE IF IsCountStyleKey(k)
    THEN x.isNone \/ ~IsSignedInteger(x.s)
    ELSE x.isNone \/ ~IsSignedNumeric(x.s)

\* C10: whenever parse_quota_value cannot parse the raw value for a key,
\* whatever branch the key routes to, it returns 0.0 with a flag of the form
\* "parse error for '<key>': <detail>" naming that resource key.
C10_ParseErrorNamesKeyAsClaimed ==
    (Called("parse_quota_value") /\ QuotaUnparsable(key, raw))
       => /\ ZeroWithFlag(result)
          /\ startswith(result.flag.s, <<"parse error for '">> \o key \o <<"': ">>)
          /\ Len(result.flag.s) > Len(key) + 2

\* C10 as amended: whenever parse_quota_value cannot parse the raw value it
\* returns 0.0 with a non-empty flag; for a key routed to the count or the
\* bare-float branch the flag is "Parse error for '<key>': <detail>"
\* (capital P) and names the key; for a key routed to CPU or memory the flag
\* is the one parse_cpu or parse_mem returns ("Invalid CPU value '<raw>'",
\* "Unable to parse CPU value '<raw>'", "Unable to parse memory value
\* '<raw>'"), which names the raw value and not the key.
C10_ParseErrorFlag ==
    (Called("parse_quota_value") /\ QuotaUnparsable(key, raw))
       => /\ ZeroWithFlag(result)
          /\ IF contains(key, <<"c","p","u">>)
             THEN result.flag.s \in
                    {<<"Invalid CPU value '">> \o raw.s \o <<"'">>,
                     <<"Unable to parse CPU value '">> \o raw.s \o <<"'">>}
             ELSE IF contains(key, <<"m","e","m","o","r","y">>)
                     \/ contains(key, <<"s","t","o","r","a","g","e">>)
             THEN result.flag.s =
                    <<"Unable to parse memory value '">> \o raw.s \o <<"'">>
             ELSE /\ startswith(result.flag.s,
                                <<"Parse error for '">> \o key \o <<"': ">>)
                  /\ Len(result.flag.s) > Len(key) + 2

\* parse_quota_value("services", "a") could not convert "a" to a float and
\* returned the flag naming the key
C10_Witness ==
    /\ Called("parse_quota_value")
    /\ key = KeyServices
    /\ raw = Str(<<"a">>)
    /\ result.value = Zero
    /\ result.flag = Str(<<"Parse error for '">> \o KeyServices \o <<"': ">>
                         \o <<"could not convert string to float: ", "'", "a", "'">>)


---------------------------------------------------------------------------
\* get_container_details: the rows and their containers

DetailsCalled == grouped_details # NotCalled

\* every container handed in, with the row returned for it
RowPairs ==
    IF ~DetailsCalled THEN {}
    ELSE UNION {{[c   |-> details_pods[i].containers[j],
                  row |-> DictGet(grouped_details, details_pods[i].name)[j]] :
                     j \in 1..Len(details_pods[i].containers)} :
                i \in 1..Len(details_pods)}

\* the flag is one of the flags joined into the row's Flags text
HasFlag(row, flag) == \E i \in 1..Len(row.Flags) : row.Flags[i] = flag

\* the quantity a well-formed CPU string denotes, as a fraction
CpuQuantity(s) ==
    IF endswith(s, <<"m">>)
    THEN LET v == LiteralVal(DropLast(s, 1)) IN [n |-> v.n, d |-> v.d * 1000]
    ELSE LiteralVal(s)

Exceeds(a, b) == a.n * b.d > b.n * a.d

NoRequests(c) == c.cpu_req.isNone /\ c.mem_req.isNone /\ c.es_req.isNone

NoLimits(c) == c.cpu_lim.isNone /\ c.mem_lim.isNone /\ c.es_lim.isNone

\* C11: "CPU req > lim" is in a row's flags exactly when the container has
\* both a CPU request and a CPU limit and the request exceeds the limit as
\* quantities ("500m" against "1" is not flagged, "10" against "9" is).
C11_CpuReqOverLimByValue ==
    \A p \in RowPairs :
        HasFlag(p.row, "CPU req > lim")
        <=> /\ ~p.c.cpu_req.isNone
            /\ ~p.c.cpu_lim.isNone
            /\ Exceeds(CpuQuantity(p.c.cpu_req.s), CpuQuantity(p.c.cpu_lim.s))

\* C12: a container with no request and no limit on any of the three
\* dimensions gets exactly "Missing resources", "No requests", "No limits",
\* in that order and each once, and never "OK".
C12_NothingSetGetsThreeFlags ==
    \A p \in RowPairs :
        NoRequests(p.c) /\ NoLimits(p.c)
        => p.row.Flags = <<"Missing resources", ", ", "No requests", ", ",
                           "No limits">>

C12_Witness ==
    \E p \in RowPairs : NoRequests(p.c) /\ NoLimits(p.c)

\* the "CPU req > lim" trigger on the original quantity strings
CpuStringTrigger(c) ==
    ~c.cpu_req.isNone /\ ~c.cpu_lim.isNone /\ str_gt(c.cpu_req.s, c.cpu_lim.s)

\* C13: a row's Flags is "OK" exactly when none of the four triggers
\* (nothing set, no requests, no limits, CPU request over limit on the
\* original strings) fires; "OK" never stands beside another flag; and the
\* Flags text is never empty.
C13_OkIffNoTrigger ==
    \A p \in RowPairs :
        /\ p.row.Flags = <<"OK">>
           <=> ~(\/ NoRequests(p.c) /\ NoLimits(p.c)
                 \/ NoRequests(p.c)
                 \/ NoLimits(p.c)
                 \/ CpuStringTrigger(p.c))
        /\ HasFlag(p.row, "OK") => p.row.Flags = <<"OK">>
        /\ p.row.Flags # <<>>

C13_Witness ==
    /\ \E p \in RowPairs : p.row.Flags = <<"OK">> /\ ~p.c.cpu_req.isNone
                           /\ ~p.c.cpu_lim.isNone

---------------------------------------------------------------------------
\* format_flag_counts: the rendered text

Formatted == rendered # <<>>

\* the flags of a Counter in ascending lexicographic order
Ascending(cnt) ==
    CHOOSE s \in [1..Len(cnt) -> {cnt[i].k : i \in 1..Len(cnt)}] :
        \A i, j \in 1..Len(cnt) : i < j => str_lt(chars(s[i]), chars(s[j]))

Tally(cnt, flag) == IF DictHas(cnt, flag) THEN DictGet(cnt, flag) ELSE 0

\* the flag, followed by " (Nx)" when it was counted N > 1 times
Entry(cnt, flag) ==
    IF Tally(cnt, flag) > 1
    THEN flag \o <<" (">> \o str_int(Tally(cnt, flag)) \o <<"x)">>
    ELSE flag

\* C17: format_flag_counts renders "OK" exactly when the Counter is empty;
\* otherwise it renders every distinct flag exactly once, in ascending
\* lexicographic order of the flag text, joined by "; ", each followed by
\* " (Nx)" exactly when its count N exceeds 1.
C17_FlagsRenderedSortedWithCounts ==
    Formatted =>
        /\ rendered = <<"OK">> <=> counter = <<>>
        /\ counter # <<>> =>
               rendered = join(<<"; ">>,
                               [i \in 1..Len(counter) |->
                                    Entry(counter, Ascending(counter)[i])])

C17_Witness ==
    /\ Formatted
    /\ Len(counter) >= 3
    /\ \E i, j \in 1..Len(counter) :
           i < j /\ str_lt(chars(counter[j].k), chars(counter[i].k))
    /\ \E i, j \in 1..Len(counter) : counter[i].v = 1 /\ counter[j].v = 11

---------------------------------------------------------------------------
\* aggregate_resources_by_controller: the aggregates

\* the frame was returned
FrameBuilt == df.exc = ""

\* "<lowercased owner kind>/<owner name>" for a pod with an owner reference,
\* "standalone/<pod name>" for a pod without
KeyOf(pod) ==
    IF pod.ownerReferences = <<>> THEN StandalonePrefix \o pod.name
    ELSE lower(pod.ownerReferences[1].kind) \o <<"/">>
             \o pod.ownerReferences[1].name

\* the pods folded so far that belong to a key
Folded(k) == {i \in 1..agg_i : KeyOf(agg_pods[i]) = k}

\* C14: a pod is aggregated under "<lowercased ownerKind>/<ownerName>" when
\* it has an owner reference and under "standalone/<podName>" otherwise, and
\* "Standalone pod without controller" is tallied exactly once for each pod
\* without an owner reference and never for a pod that has one, whatever
\* the owner's kind.
C14_StandaloneFlagOnlyWithoutOwner ==
    /\ \A i \in 1..agg_i : DictHas(grouped_data, KeyOf(agg_pods[i]))
    /\ \A g \in 1..Len(grouped_data) :
           Tally(grouped_data[g].v.flags, StandaloneFlag)
           = Cardinality({i \in Folded(grouped_data[g].k) :
                              agg_pods[i].ownerReferences = <<>>})

RECURSIVE SumPodCounts(_)
SumPodCounts(rows) ==
    IF rows = <<>> THEN 0 ELSE rows[1].pod_count + SumPodCounts(Tail(rows))

\* C15: in the returned frame there is exactly one aggregate per distinct
\* key of the input pods, its pod_count is the number of input pods with that
\* key, and the pod_counts sum to the number of input pods.
C15_PodCountPerKey ==
    FrameBuilt =>
        /\ \A i, j \in 1..Len(df.rows) :
               i # j => df.rows[i].Controller # df.rows[j].Controller
        /\ {df.rows[i].Controller : i \in 1..Len(df.rows)}
           = {KeyOf(agg_pods[i]) : i \in 1..Len(agg_pods)}
        /\ \A i \in 1..Len(df.rows) :
               df.rows[i].pod_count
               = Cardinality({j \in 1..Len(agg_pods) :
                                  KeyOf(agg_pods[j]) = df.rows[i].Controller})
        /\ SumPodCounts(df.rows) = Len(agg_pods)

C15_Witness ==
    /\ FrameBuilt
    /\ Len(df.rows) = 1
    /\ df.rows[1].pod_count = 2
    /\ agg_pods[1].ownerReferences # <<>>

\* the quantity of a CPU string in cores, 0 for an absent or flagged one
ExactCpu(x) ==
    IF x.isNone \/ ~parse_cpu(x).flag.isNone THEN Zero
    ELSE LET q == CpuQuantity(x.s) IN Dec(q.n, q.d)

\* the quantity of a memory string in MiB, 0 for an absent or flagged one
\* (the strings of AggContainers end in Gi or Mi)
ExactMem(x) ==
    IF x.isNone \/ ~parse_mem(x).flag.isNone THEN Zero
    ELSE LET v == LiteralVal(DropLast(x.s, 2))
         IN  IF endswith(x.s, <<"G", "i">>) THEN Dec(v.n * 1024, v.d) ELSE v

RECURSIVE SumSeq(_)
SumSeq(s) == IF s = <<>> THEN Zero ELSE Add(s[1], SumSeq(Tail(s)))

RECURSIVE Flatten(_)
Flatten(ss) == IF ss = <<>> THEN <<>> ELSE ss[1] \o Flatten(Tail(ss))

\* the containers of all input pods with the key, in input order
ContainersOf(k) ==
    Flatten([i \in 1..Len(agg_pods) |->
                IF KeyOf(agg_pods[i]) = k THEN agg_pods[i].containers ELSE <<>>])

\* the exact sum of one quantity over the containers, rounded once
RoundedSum(cs, Exact(_), field(_)) ==
    round2(SumSeq([i \in 1..Len(cs) |-> Exact(field(cs[i]))]))

FieldCpuReq(c) == c.cpu_req

FieldCpuLim(c) == c.cpu_lim

FieldMemReq(c) == c.mem_req

FieldMemLim(c) == c.mem_lim

FieldEsReq(c) == c.es_req

FieldEsLim(c) == c.es_lim

\* C16: each summed quantity of an aggregate is the arithmetic sum of the
\* normalized values of all containers of all pods with that key, rounded to
\* two decimals only once, after folding (two containers of "4m" give 0.01,
\* ten give 0.04).
C16_SumsRoundedOnce ==
    FrameBuilt =>
        \A i \in 1..Len(df.rows) :
            LET cs == ContainersOf(df.rows[i].Controller)
            IN  /\ df.rows[i].cpu_req = RoundedSum(cs, ExactCpu, FieldCpuReq)
                /\ df.rows[i].cpu_lim = RoundedSum(cs, ExactCpu, FieldCpuLim)
                /\ df.rows[i].mem_req = RoundedSum(cs, ExactMem, FieldMemReq)
                /\ df.rows[i].mem_lim = RoundedSum(cs, ExactMem, FieldMemLim)
                /\ df.rows[i].es_req  = RoundedSum(cs, ExactMem, FieldEsReq)
                /\ df.rows[i].es_lim  = RoundedSum(cs, ExactMem, FieldEsLim)

\* the aggregate of a key before it exists
AggregateAt(data, k) == IF DictHas(data, k) THEN DictGet(data, k) ELSE NewAggregate

\* the tallies of the flags other than the standalone flag
ParseFlags(grp) ==
    {[k |-> grp.flags[i].k, v |-> grp.flags[i].v] :
        i \in {j \in 1..Len(grp.flags) : grp.flags[j].k # StandaloneFlag}}

\* C18: folding a pod whose container list is empty raises no error, adds
\* one to the pod_count of its aggregate, leaves the six sums unchanged and
\* adds no parse flag.
C18_EmptyPodCountsOnly ==
    [][(/\ df = NoFrame
        /\ agg_i < Len(agg_pods)
        /\ agg_pods[agg_i + 1].containers = <<>>)
       => LET k      == KeyOf(agg_pods[agg_i + 1])
              before == AggregateAt(grouped_data, k)
              after  == AggregateAt(grouped_data', k)
          IN  /\ df' = NoFrame
              /\ agg_i' = agg_i + 1
              /\ after.pod_count = before.pod_count + 1
              /\ after.cpu_req = before.cpu_req
              /\ after.cpu_lim = before.cpu_lim
              /\ after.mem_req = before.mem_req
              /\ after.mem_lim = before.mem_lim
              /\ after.es_req  = before.es_req
              /\ after.es_lim  = before.es_lim
              /\ ParseFlags(after) = ParseFlags(before)]_vars

C18_Witness ==
    /\ df = NoFrame
    /\ agg_i = 2
    /\ agg_pods[2].containers = <<>>
    /\ agg_pods[1].containers # <<>>
    /\ KeyOf(agg_pods[1]) = KeyOf(agg_pods[2])
    /\ ParseFlags(DictGet(grouped_data, KeyOf(agg_pods[2]))) # {}

RECURSIVE AggregateAll(_)
\* grouped_data after the loop of line 108 has folded the pods in order
AggregateAll(pods) ==
    IF pods = <<>> THEN <<>>
    ELSE fold_pod(AggregateAll(DropLast(pods, 1)), pods[Len(pods)]).data

\* the frame as a mapping: its rows without their order
RowSet(frame) == {frame.rows[i] : i \in 1..Len(frame.rows)}

\* the lists that hold the pods of a list in another order
Reorderings(pods) ==
    {[i \in 1..Len(pods) |-> pods[f[i]]] :
        f \in {g \in [1..Len(pods) -> 1..Len(pods)] :
                  \A i, j \in 1..Len(pods) : i # j => g[i] # g[j]}}

\* the merge of two partial aggregations: per key the pod_counts, the sums
\* and the tallies added, then rounded and rendered as one frame's rows
MergedRows(d1, d2) ==
    LET keys == {d1[i].k : i \in 1..Len(d1)} \cup {d2[i].k : i \in 1..Len(d2)}
        flagsOf(a, b) == {a.flags[i].k : i \in 1..Len(a.flags)}
                         \cup {b.flags[i].k : i \in 1..Len(b.flags)}
        Row(k) ==
            LET a == AggregateAt(d1, k)
                b == AggregateAt(d2, k)
                merged == {[k |-> f, v |-> Tally(a.flags, f) + Tally(b.flags, f)] :
                              f \in flagsOf(a, b)}
                cnt == CHOOSE c \in [1..Cardinality(merged) -> merged] :
                           \A i, j \in 1..Cardinality(merged) :
                               i # j => c[i] # c[j]
            IN  [Controller |-> k,
                 pod_count  |-> a.pod_count + b.pod_count,
                 cpu_req    |-> round2(Add(a.cpu_req, b.cpu_req)),
                 cpu_lim    |-> round2(Add(a.cpu_lim, b.cpu_lim)),
                 mem_req    |-> round2(Add(a.mem_req, b.mem_req)),
                 mem_lim    |-> round2(Add(a.mem_lim, b.mem_lim)),
                 es_req     |-> round2(Add(a.es_req, b.es_req)),
                 es_lim     |-> round2(Add(a.es_lim, b.es_lim)),
                 Flags      |-> format_flag_counts(cnt)]
    IN  {Row(k) : k \in keys}

\* C19: the aggregation does not depend on the order of the pods: every
\* permutation of the input list gives the same mapping from key to
\* (pod_count, six sums, flag tally), and the aggregations of the two parts
\* of the list, merged, give that mapping too.
C19_OrderIndependent ==
    FrameBuilt =>
        /\ \A perm \in Reorderings(agg_pods) :
               RowSet(build_frame(AggregateAll(perm))) = RowSet(df)
        /\ \A j \in 0..Len(agg_pods) :
               MergedRows(AggregateAll(SubSeq(agg_pods, 1, j)),
                          AggregateAll(SubSeq(agg_pods, j + 1, Len(agg_pods))))
               = RowSet(df)

C19_Witness ==
    /\ FrameBuilt
    /\ Len(agg_pods) = 2
    /\ KeyOf(agg_pods[1]) = KeyOf(agg_pods[2])
    /\ agg_pods[1].containers # <<>>
    /\ agg_pods[2].containers # <<>>
    /\ agg_pods[1].containers # agg_pods[2].containers
    /\ df.rows[1].Flags # <<"OK">>

---------------------------------------------------------------------------
\* parse_quota: the usage percentage

QuotaParsed == quota_data # NoFrame

\* the normalized quantity of a quota string as a fraction: cores for a CPU
\* key, MiB for a memory key (Gi, Mi or plain bytes), the number itself for
\* a count; 0 for a string that does not parse
NormalizedQuota(k, s) ==
    IF ~parse_quota_value(k, Str(s)).flag.isNone THEN Zero
    ELSE IF contains(k, <<"c", "p", "u">>) THEN CpuQuantity(s)
    ELSE IF contains(k, <<"m", "e", "m", "o", "r", "y">>)
    THEN IF endswith(s, <<"G", "i">>)
         THEN [n |-> LiteralVal(DropLast(s, 2)).n * 1024,
               d |-> LiteralVal(DropLast(s, 2)).d]
         ELSE IF endswith(s, <<"M", "i">>) THEN LiteralVal(DropLast(s, 2))
         ELSE IF LiteralVal(s).n = 0 THEN Zero
         ELSE [n |-> LiteralVal(s).n, d |-> LiteralVal(s).d * 1048576]
    ELSE LiteralVal(s)

\* used / hard * 100 rounded to one decimal
PercentOf(used, hard) ==
    Dec(NearestHalfEven(used.n * hard.d * 1000, used.d * hard.n), 10)

\* C20: every record's usage percentage is used / hard * 100 on the
\* normalized values, rounded to one decimal, when hard is above zero (used
\* "1m" of hard "2m" is 50.0), and 0.0 when hard is zero; a hard of "0"
\* raises no error.
C20_UsagePercentOfNormalized ==
    QuotaParsed =>
        /\ quota_data.exc = ""
        /\ \A i \in 1..Len(quota_data.rows) :
               LET row  == quota_data.rows[i]
                   used == NormalizedQuota(row.Resource, row.Used)
                   hard == NormalizedQuota(row.Resource, row.Hard_Limit)
               IN  row.Usage = IF hard.n > 0 THEN PercentOf(used, hard) ELSE Zero

RECURSIVE CountRows(_)
\* the number of hard keys of all quota objects
CountRows(items) ==
    IF items = <<>> THEN 0 ELSE Len(items[1].hard) + CountRows(Tail(items))

\* the (resource, used, hard) expected for every key of an item's hard map,
\* in the order of the map
ItemRecords(item) ==
    [j \in 1..Len(item.hard) |->
        [Resource   |-> item.hard[j].k,
         Used       |-> IF \E u \in 1..Len(item.used) : item.used[u].k = item.hard[j].k
                        THEN item.used[CHOOSE u \in 1..Len(item.used) :
                                           item.used[u].k = item.hard[j].k].v
                        ELSE <<"0">>,
         Hard_Limit |-> item.hard[j].v]]

\* the (resource, used, hard) of the returned rows
ReturnedRecords ==
    [i \in 1..Len(quota_data.rows) |->
        [Resource   |-> quota_data.rows[i].Resource,
         Used       |-> quota_data.rows[i].Used,
         Hard_Limit |-> quota_data.rows[i].Hard_Limit]]

\* C21: parse_quota returns exactly one record per (quota object, key of that
\* object's hard map), in iteration order; a key missing from used counts as
\* used "0"; a key that only used has gets no record.
C21_OneRecordPerHardKey ==
    QuotaParsed =>
        /\ quota_data.exc = ""
        /\ ReturnedRecords
           = Flatten([i \in 1..Len(quota_items) |-> ItemRecords(quota_items[i])])
        /\ Len(quota_data.rows) = CountRows(quota_items)
        /\ \A i \in 1..Len(quota_data.rows) :
               quota_data.rows[i].Resource # KeyServices

C21_Witness ==
    /\ QuotaParsed
    /\ Len(quota_items) = 2
    /\ \E u \in 1..Len(quota_items[1].used) : quota_items[1].used[u].k = KeyServices
    /\ quota_items[1].hard = <<>>
    /\ Len(quota_items[2].hard) = 1
    /\ quota_items[2].used = <<>>
    /\ quota_data.rows[1].Used = <<"0">>

---------------------------------------------------------------------------
\* add_table_with_flag_rows: the severity of a quota row

RowDrawn == row_colors # NoColors

\* the tier a fill colour stands for in the legend of section1
Severity(colors) ==
    IF colors.fill = Red THEN "critical"
    ELSE IF colors.fill = Yellow THEN "caution"
    ELSE "normal"

---------------------------------------------------------------------------
\* get_namespace_coverage: which pods are covered

CoverageCalled == coverage_data # NoCoverage

Range(s) == {s[i] : i \in 1..Len(s)}

\* the pairs of a dict of labels
Pairs(d) == {<<d[i].k, d[i].v>> : i \in 1..Len(d)}

\* the matchLabels a PDB carries, none when a key on the way is missing
MatchLabelsOf(pdb) ==
    IF pdb.has_spec /\ pdb.has_selector /\ pdb.has_matchLabels
    THEN Pairs(pdb.matchLabels)
    ELSE {}

LabelsOf(pod) == IF pod.has_labels THEN Pairs(pod.labels) ELSE {}

\* some PDB has a non-empty matchLabels all of whose pairs the pod carries
CoveredBySome(pod, pdbs) ==
    \E j \in 1..Len(pdbs) :
        /\ MatchLabelsOf(pdbs[j]) # {}
        /\ MatchLabelsOf(pdbs[j]) \subseteq LabelsOf(pod)

\* C23: a pod is in covered_pods exactly when some PDB has a non-empty
\* matchLabels every key of which the pod carries with the same value; a pod
\* without labels, or one carrying only some keys of every selector, is in
\* uncovered_pods.
C23_CoveredIffSelectorMatches ==
    CoverageCalled =>
        \A i \in 1..Len(pods_list) :
            /\ pods_list[i] \in Range(coverage_data.covered_pods)
                   <=> CoveredBySome(pods_list[i], pdbs_list)
            /\ pods_list[i] \in Range(coverage_data.uncovered_pods)
                   <=> ~CoveredBySome(pods_list[i], pdbs_list)
            /\ LabelsOf(pods_list[i]) = {}
                   => pods_list[i] \in Range(coverage_data.uncovered_pods)

C23_Witness ==
    /\ CoverageCalled
    /\ pdbs_list = <<MatchLabels(<<TierDb, AppX>>)>>
    /\ \E i \in 1..Len(pods_list) :
           /\ pods_list[i].labels = <<AppX>>
           /\ pods_list[i] \in Range(coverage_data.uncovered_pods)
    /\ \E i \in 1..Len(pods_list) :
           /\ pods_list[i].labels = <<AppX, TierDb>>
           /\ pods_list[i] \in Range(coverage_data.covered_pods)

HasMatchLabels(pdb) == MatchLabelsOf(pdb) # {}

\* C24: a PDB without matchLabels (missing, empty or expressions only) is
\* skipped: the result is that of the call without it, and with only such
\* PDBs every pod is uncovered and the coverage is 0.
C24_PdbWithoutMatchLabelsSkipped ==
    CoverageCalled =>
        /\ coverage_data =
               get_namespace_coverage(pods_list,
                                      SelectSeq(pdbs_list, HasMatchLabels))
        /\ (\A j \in 1..Len(pdbs_list) : ~HasMatchLabels(pdbs_list[j])) =>
               /\ coverage_data.covered_pods = <<>>
               /\ coverage_data.uncovered_pods = pods_list
               /\ coverage_data.coverage_percentage = Zero

C24_Witness ==
    /\ CoverageCalled
    /\ Len(pdbs_list) = 2
    /\ pdbs_list[1].has_matchExpressions
    /\ pdbs_list[2] = MatchLabels(<<>>)
    /\ \E i \in 1..Len(pods_list) : pods_list[i].labels = <<AppX>>
    /\ coverage_data.uncovered_pods = pods_list

\* C25: coverage_percentage is covered/total*100 rounded to the nearest
\* whole number when there are pods, 0 when there are none, and always a
\* whole number from 0 to 100.
C25_PercentageRounded ==
    CoverageCalled =>
        /\ coverage_data.coverage_percentage.d = 1
        /\ coverage_data.coverage_percentage.n \in 0..100
        /\ coverage_data.total_pods = 0
               => coverage_data.coverage_percentage = Zero
        /\ coverage_data.total_pods > 0 =>
               2 * Abs(coverage_data.coverage_percentage.n
                           * coverage_data.total_pods
                       - 100 * Len(coverage_data.covered_pods))
                   <= coverage_data.total_pods

C25_Witness ==
    /\ CoverageCalled
    /\ coverage_data.total_pods = 3
    /\ Len(coverage_data.covered_pods) = 2
    /\ coverage_data.coverage_percentage = Dec(67, 1)

\* the pods of pods_list that are in the list s, in the order of pods_list
Kept(s) == LET In(pod) == pod \in Range(s) IN SelectSeq(pods_list, In)

\* C26: every input pod is in exactly one of covered_pods and
\* uncovered_pods, each list keeps the input order, and the two lengths add
\* up to total_pods, the number of input pods (of 10 pods of which 7 match:
\* 7 covered, 3 uncovered, 70).
C26_CoveredUncoveredPartition ==
    CoverageCalled =>
        /\ \A i \in 1..Len(pods_list) :
               pods_list[i] \in Range(coverage_data.covered_pods)
                   <=> pods_list[i] \notin Range(coverage_data.uncovered_pods)
        /\ coverage_data.covered_pods = Kept(coverage_data.covered_pods)
        /\ coverage_data.uncovered_pods = Kept(coverage_data.uncovered_pods)
        /\ Len(coverage_data.covered_pods) + Len(coverage_data.uncovered_pods)
               = coverage_data.total_pods
        /\ coverage_data.total_pods = Len(pods_list)
        /\ (Len(pods_list) = 10 /\ Len(coverage_data.covered_pods) = 7) =>
               /\ Len(coverage_data.uncovered_pods) = 3
               /\ coverage_data.coverage_percentage = Dec(70, 1)

C26_Witness ==
    /\ CoverageCalled
    /\ Len(pods_list) = 10
    /\ Len(coverage_data.covered_pods) = 7
    /\ Len(coverage_data.uncovered_pods) = 3
    /\ coverage_data.coverage_percentage = Dec(70, 1)
    /\ coverage_data.uncovered_pods[1] = pods_list[5]

---------------------------------------------------------------------------
\* probe: the "Last Seen Running" and "Uptime" cells of a row

\* the pod of the input that has the name
PodNamed(name) ==
    pod_data.items[CHOOSE i \in 1..Len(pod_data.items) :
                       pod_data.items[i].name = name]

\* the container of the pod that has the name
ContainerNamed(pod, name) ==
    pod.containers[CHOOSE j \in 1..Len(pod.containers) :
                       pod.containers[j].name = name]

\* what the two cells are when taken from the container's own status entry
LastSeenOf(container) ==
    IF container.has_status
    THEN get_restart_or_start_time(container.status)
    ELSE DoubleDash

UptimeOf(container) == calculate_uptime(LastSeenOf(container), pod_data.now)

RowFromOwnStatus(pod_name, row) ==
    /\ row.restart_time
           = LastSeenOf(ContainerNamed(PodNamed(pod_name), row.container_name))
    /\ row.uptime
           = UptimeOf(ContainerNamed(PodNamed(pod_name), row.container_name))

\* C27: the "Last Seen Running" and "Uptime" cells of every row come from
\* the status entry of the row's own container and are "--" when it has
\* none; they never hold what another container left behind, and building
\* a row never fails because they are unset.
C27_TimesFromOwnStatus ==
    /\ probe_state.exc = ""
    /\ \A o \in 1..Len(probe_state.owners) :
           \A p \in 1..Len(probe_state.owners[o].v) :
               \A r \in 1..Len(probe_state.owners[o].v[p].v) :
                   RowFromOwnStatus(probe_state.owners[o].v[p].k,
                                    probe_state.owners[o].v[p].v[r])


---------------------------------------------------------------------------
\* C28: for every input string parse_cpu and parse_mem return a value that
\* is 0 or more: a negative quantity such as "-5m" or "-1Gi" never comes
\* back as a negative number without a flag.
C28_ParsedValueNeverNegative ==
    (/\ Called("parse_cpu") \/ Called("parse_mem")
     /\ IsString(raw))
       => result.value.n >= 0

---------------------------------------------------------------------------
\* C29: the classifier gives a container "Missing resources" exactly when
\* it gives it both "No requests" and "No limits".
C29_MissingIffNoRequestsAndNoLimits ==
    \A p \in RowPairs :
        HasFlag(p.row, "Missing resources")
            <=> HasFlag(p.row, "No requests") /\ HasFlag(p.row, "No limits")

\* a returned row carries "Missing resources" beside the two other flags
C29_Witness ==
    \E p \in RowPairs :
        /\ HasFlag(p.row, "Missing resources")
        /\ HasFlag(p.row, "No requests")
        /\ HasFlag(p.row, "No limits")
        /\ ~HasFlag(p.row, "CPU req > lim")


---------------------------------------------------------------------------
\* the keys of grouped_data
KeysOf(data) == {data[g].k : g \in 1..Len(data)}

\* C30: folding one pod changes the aggregate of that pod's controller key
\* only: every other key keeps its aggregate, and no other key appears or
\* disappears.
C30_FoldTouchesOwnKeyOnly ==
    [][(/\ df = NoFrame
        /\ agg_i < Len(agg_pods))
       => \A k \in KeysOf(grouped_data) \cup KeysOf(grouped_data') :
              k # KeyOf(agg_pods[agg_i + 1])
              => /\ DictHas(grouped_data, k)
                 /\ DictHas(grouped_data', k)
                 /\ DictGet(grouped_data', k) = DictGet(grouped_data, k)]_vars

\* two pods of two keys have been folded, and the aggregate of the first
\* still counts one pod
C30_Witness ==
    /\ df = NoFrame
    /\ agg_i = 2
    /\ KeyOf(agg_pods[1]) # KeyOf(agg_pods[2])
    /\ KeysOf(grouped_data) = {KeyOf(agg_pods[1]), KeyOf(agg_pods[2])}
    /\ agg_pods[1].containers # <<>>
    /\ agg_pods[2].containers # <<>>
    /\ DictGet(grouped_data, KeyOf(agg_pods[1])).pod_count = 1
====
